---- MODULE Spec2Model ----
(***************************************************************************)
(* Model of the ExplainNet backend's topic analysis orchestrator           *)
(* (backend/pipeline.py), its store operations (backend/crud.py) and the   *)
(* in-memory TTL cache (backend/cache_service.py).                         *)
(*                                                                         *)
(* Conventions.  Python None is modelled by a value of the same sort as    *)
(* the non-null values: NullLabel for strings, NullScore for one video's   *)
(* impact score, NullAvg for a topic's average (a float is the exact       *)
(* fraction <<sum, count>>), NullMsg for error_message.                    *)
(***************************************************************************)
EXTENDS Integers, Sequences, FiniteSets, TLC

\* ---------------------------------------------------------------- bounds
MaxTopics == 2          \* topics created (each is analysed exactly once)
NumVideoIds == 3        \* external video ids that searches can return
MaxFound == 2           \* videos returned by one search
MaxNews == 1            \* articles returned by each news source
MaxTicks == 2           \* clock advances
MaxAgeDays == 121       \* age of the oldest publish time
MaxArticles == 6        \* articles found by the two news sources together

\* ------------------------------------------------------- program constants
MaxResults == 5         \* search_videos(topic_name, max_results=5)
MaxValid == 5           \* valid_video_details[:5]
TopicTTL == 900         \* cache_topic_search(..., ttl_seconds=900)
ListTTL == 30           \* set_cached(cache_key, topics, ttl=30)

TopicIds == 1..MaxTopics
VideoIds == 1..NumVideoIds

NullLabel == "NULL"
NullMsg == "NULL"
NullScore == 0 - 1
NullAvg == <<0, 0>>
NoCall == [fn |-> "none", args |-> <<>>, returned |-> FALSE, ret |-> <<>>]
NoGet == [key |-> <<>>, hit |-> FALSE, value |-> <<>>, at |-> 0]
NullGist == "NULL"
NoNews == [mode |-> "none", pc |-> "idle", i |-> 0, time |-> 0, wake |-> 0,
           sleeps |-> <<>>, items |-> <<>>, session |-> "active"]

Min(a, b) == IF a < b THEN a ELSE b

\* sum(...)
RECURSIVE SumSeq(_)
SumSeq(s) == IF s = <<>> THEN 0 ELSE Head(s) + SumSeq(Tail(s))

\* ------------------------------------------------------------ topic names
\* Topic names are strings (sequences of characters); the table's unique
\* constraint is on the exact string, the cache key on the normalized one.
TopicNames == { <<"A">>, <<"a", " ">> }

\* str.lower()
LowerChar(ch) == IF ch = "A" THEN "a" ELSE IF ch = "B" THEN "b" ELSE ch
lower(s) == [i \in 1..Len(s) |-> LowerChar(s[i])]

\* str.strip()
RECURSIVE lstrip(_)
lstrip(s) == IF s # <<>> /\ Head(s) = " " THEN lstrip(Tail(s)) ELSE s
RECURSIVE rstrip(_)
rstrip(s) == IF s # <<>> /\ s[Len(s)] = " " THEN rstrip(SubSeq(s, 1, Len(s) - 1)) ELSE s
strip(s) == rstrip(lstrip(s))

\* cache_service.topic_search_key
topic_search_key(topic_name) == <<"topic_search:">> \o strip(lower(topic_name))

\* main.get_topics: cache_key = f"topics_list_{skip}_{limit}"
ListKey == <<"topics_list_0_100">>

\* ------------------------------------------------------------------ state
VARIABLES
    now,        \* time.time()
    cache,      \* InMemoryCache._cache: key -> [value, expiry_time]
    setInfo,    \* history: key -> the last set of the key not since deleted or cleared
    lastGet,    \* the return of the InMemoryCache.get made by the last step, if any
    apiKey,     \* os.getenv("YOUTUBE_API_KEY") is set
    topics,     \* table topics: id -> row
    videos,     \* table videos: external video_id -> row
    rows,       \* video ids in row (insertion) order
    sents,      \* table sentiments: video -> rows in insertion order
    run,        \* per topic: the state of its analysis run
    ticks,      \* number of clock advances so far
    call,       \* a call of a function of the scoring services: arguments, result
    news,       \* the article processing of a run: the loop, the clock, the articles
    queue,      \* pipeline.transcription_log_queue: the topics whose workers put the entries
    yielded     \* the events that analyze_topic_streaming yielded in the last step

vars == <<now, cache, setInfo, lastGet, apiKey, topics, videos, rows, sents, run, ticks, call, news, queue, queue, yielded>>

\* ------------------------------------------------------------ the TTL cache
\* InMemoryCache.get: "if time.time() > expiry_time"
ExpiredAtOrAfter(t, expiry_time) == t >= expiry_time
Expired(t, expiry_time) == t > expiry_time

\* InMemoryCache.get, the returned value: [hit, value]; hit = FALSE is None
Miss == [hit |-> FALSE, value |-> <<>>]
CacheGetValue(c, key, t) ==
    IF key \notin DOMAIN c THEN Miss
    ELSE IF Expired(t, c[key].expiry_time) THEN Miss
    ELSE [hit |-> TRUE, value |-> c[key].value]

\* InMemoryCache.get, the cache it leaves: an expired entry is deleted
CacheGetCache(c, key, t) ==
    IF key \in DOMAIN c /\ Expired(t, c[key].expiry_time)
    THEN [k \in DOMAIN c \ {key} |-> c[k]]
    ELSE c

\* InMemoryCache.set
CacheSet(c, key, value, ttl_seconds, t) ==
    (key :> [value |-> value, expiry_time |-> t + ttl_seconds]) @@ c

\* InMemoryCache.delete
CacheDelete(c, key) == [k \in DOMAIN c \ {key} |-> c[k]]

\* InMemoryCache.cleanup_expired
CacheCleanup(c, t) ==
    [k \in {x \in DOMAIN c : ~ (t > c[x].expiry_time)} |-> c[k]]

\* the record of a get made by a step
GetRecord(c, key, t) ==
    [key |-> key, hit |-> CacheGetValue(c, key, t).hit,
     value |-> CacheGetValue(c, key, t).value, at |-> t]

\* the history entry of a set
SetRecord(key, value, ttl_seconds, t) ==
    (key :> [value |-> value, at |-> t, ttl |-> ttl_seconds])

\* ----------------------------------------------------------- the store
\* a row of table topics as crud.create_topic makes it
NewTopic(topic_name) ==
    [topic_name |-> topic_name, analysis_status |-> "pending",
     total_videos |-> 0, total_articles |-> 0, videos_found |-> 0,
     overall_sentiment |-> NullLabel, overall_impact_score |-> NullAvg,
     error_message |-> NullMsg]

\* an id of table topics that has no row yet
NoTopic == [NewTopic(<<>>) EXCEPT !.analysis_status = "none"]

\* the status assignment indented under "if error_message:"
update_topic_status_indent(tp, topic_id, status, error_message) ==
    IF tp[topic_id].analysis_status = "none" \/ error_message \in {NullMsg, ""} THEN tp
    ELSE [tp EXCEPT ![topic_id].analysis_status = status,
                    ![topic_id].error_message = error_message]

\* crud.update_topic_status: "if error_message:" skips None and ""
update_topic_status(tp, topic_id, status, error_message) ==
    IF tp[topic_id].analysis_status = "none" THEN tp
    ELSE [tp EXCEPT ![topic_id].analysis_status = status,
                    ![topic_id].error_message =
                        IF error_message \notin {NullMsg, ""} THEN error_message ELSE @]

\* crud.get_videos_by_topic: the topic's video rows, in row order
get_videos_by_topic(vs, rw, topic_id) ==
    SelectSeq(rw, LAMBDA v : vs[v].topic_id = topic_id)

\* a row of table videos as models.Video's defaults make it
NewVideo(topic_id) ==
    [topic_id |-> topic_id, transcription_status |-> "pending",
     impact_score |-> NullScore, overall_sentiment |-> NullLabel,
     models_agree |-> FALSE]

\* a video_id that has no row
NoVideo == NewVideo(0)

\* crud.create_video, the rows: an existing row is moved to the topic
create_video(vs, video_id, topic_id) ==
    IF vs[video_id].topic_id # 0
    THEN [vs EXCEPT ![video_id].topic_id = topic_id]
    ELSE [vs EXCEPT ![video_id] = NewVideo(topic_id)]

\* crud.create_video, the row order: a new row is added last
create_video_rows(vs, rw, video_id) ==
    IF vs[video_id].topic_id # 0 THEN rw ELSE Append(rw, video_id)

\* crud.update_video_scores
update_video_scores(vs, video_id, scores) ==
    [vs EXCEPT ![video_id].impact_score = scores.impact_score,
               ![video_id].overall_sentiment = scores.overall_sentiment,
               ![video_id].models_agree = scores.models_agree]

\* ------------------------------------------------ sentiment model results
\* A model call returns a dict (present) whose "sentiment" may be None, or
\* raises, which leaves the worker's variable None (not present).
NoneResult == [present |-> FALSE, sentiment |-> NullLabel, confidence |-> 0]
Declined == [present |-> TRUE, sentiment |-> NullLabel, confidence |-> 0]
Result(sentiment, confidence) ==
    [present |-> TRUE, sentiment |-> sentiment, confidence |-> confidence]

\* huggingface_service.analyze_sentiment never raises (confidence in tenths)
HfResults == {Declined, Result("POSITIVE", 5), Result("NEGATIVE", 5)}

\* the answers drawn where the label does not matter
HfSome == {Result("POSITIVE", 5)}

\* gemini_service.analyze_sentiment_advanced returns a dict or raises
GeminiResults == {Result("NEGATIVE", 9)}

\* crud.create_sentiment: the row made of a model's dict
SentimentRow(model_name, data) ==
    [model_name |-> model_name,
     sentiment |-> IF data.sentiment = NullLabel THEN "UNKNOWN" ELSE data.sentiment,
     confidence |-> data.confidence]

\* str.upper on the labels that the models return
Upper(label) ==
    IF label = "positive" THEN "POSITIVE" ELSE IF label = "negative" THEN "NEGATIVE" ELSE label

\* 'x.get("sentiment") if x and x.get("sentiment") else None', in upper case
SentimentOf(x) ==
    IF x.present /\ x.sentiment \notin {NullLabel, ""} THEN Upper(x.sentiment) ELSE NullLabel

\* the second model wins a tie of confidence
HigherConfidenceStrict(hf_sentiment, gemini_sentiment) ==
    IF hf_sentiment.confidence > gemini_sentiment.confidence
    THEN <<SentimentOf(hf_sentiment), FALSE>>
    ELSE <<SentimentOf(gemini_sentiment), FALSE>>

\* "if hf_conf >= gemini_conf: return hf_sent_u, False" else the other label
HigherConfidence(hf_sentiment, gemini_sentiment) ==
    IF hf_sentiment.confidence >= gemini_sentiment.confidence
    THEN <<SentimentOf(hf_sentiment), FALSE>>
    ELSE <<SentimentOf(gemini_sentiment), FALSE>>

\* a label given by one model only counts as an agreement
determine_overall_sentiment_alone(hf_sentiment, gemini_sentiment) ==
    LET hf_sent_u == SentimentOf(hf_sentiment)
        gemini_sent_u == SentimentOf(gemini_sentiment)
    IN  IF hf_sent_u = NullLabel /\ gemini_sent_u = NullLabel THEN <<NullLabel, FALSE>>
        ELSE IF hf_sent_u # NullLabel /\ hf_sent_u = gemini_sent_u THEN <<hf_sent_u, TRUE>>
        ELSE IF hf_sent_u = NullLabel THEN <<gemini_sent_u, TRUE>>
        ELSE IF gemini_sent_u = NullLabel THEN <<hf_sent_u, TRUE>>
        ELSE HigherConfidence(hf_sentiment, gemini_sentiment)

\* impact_score_service.determine_overall_sentiment: <<overall, models_agree>>
determine_overall_sentiment(hf_sentiment, gemini_sentiment) ==
    LET hf_sent_u == SentimentOf(hf_sentiment)
        gemini_sent_u == SentimentOf(gemini_sentiment)
    IN  IF hf_sent_u = NullLabel /\ gemini_sent_u = NullLabel THEN <<NullLabel, FALSE>>
        ELSE IF hf_sent_u # NullLabel /\ hf_sent_u = gemini_sent_u THEN <<hf_sent_u, TRUE>>
        ELSE IF hf_sent_u = NullLabel THEN <<gemini_sent_u, FALSE>>
        ELSE IF gemini_sent_u = NullLabel THEN <<hf_sent_u, FALSE>>
        ELSE HigherConfidence(hf_sentiment, gemini_sentiment)

\* ------------------------------------------------ impact_score_service
\* Scores are counted in hundredths of a point, confidences in tenths, the
\* recency boost in tenths, a publish time as its age in hours.
Max(a, b) == IF a > b THEN a ELSE b

\* math.log10 on the powers of ten (its integer part elsewhere)
RECURSIVE Log10(_)
Log10(n) == IF n < 10 THEN 0 ELSE 1 + Log10(n \div 10)

\* youtube_service.parse_youtube_datetime: a missing or malformed publishedAt
\* becomes datetime.now(), the local time without zone, which
\* calculate_recency_boost then reads as UTC: tz hours in the future
parse_youtube_datetime(date_str, tz) ==
    IF date_str.kind = "time" THEN date_str ELSE [kind |-> "time", age |-> 0 - tz]

\* "(now - pub_date).days": whole days, rounded down
DaysOld(age) == age \div 24

\* the 30 day tier is missing
calculate_recency_boost_two_tiers(published_at) ==
    IF published_at.kind # "time" THEN 10
    ELSE IF DaysOld(published_at.age) <= 7 THEN 15
    ELSE IF DaysOld(published_at.age) <= 90 THEN 13
    ELSE 10

\* impact_score_service.calculate_recency_boost
calculate_recency_boost(published_at) ==
    IF published_at.kind # "time" THEN 10
    ELSE IF DaysOld(published_at.age) <= 7 THEN 15
    ELSE IF DaysOld(published_at.age) <= 30 THEN 13
    ELSE IF DaysOld(published_at.age) <= 90 THEN 11
    ELSE 10

\* "min(10, (math.log10(n + 1) / 7) * 10)" for n > 0, the reach and the
\* influence score
LogScore(n) == IF n > 0 THEN Min(1000, (Log10(n + 1) * 1000) \div 7) ELSE 0

\* "like_component + comment_component"
EngagementScore(views, likes, comments) ==
    IF views > 0
    THEN Min(500, (likes * 10000) \div views) + Min(500, (comments * 10000) \div views)
    ELSE 0

\* "x.get("sentiment") if x and x.get("sentiment") else None", as returned
RawSentiment(x) ==
    IF x.present /\ x.sentiment \notin {NullLabel, ""} THEN x.sentiment ELSE NullLabel

\* avg_confidence as the fraction <<tenths, models>>
AvgConfidence(hf_sentiment, gemini_sentiment) ==
    IF ~ hf_sentiment.present /\ ~ gemini_sentiment.present THEN <<0, 1>>
    ELSE IF ~ hf_sentiment.present THEN <<gemini_sentiment.confidence, 1>>
    ELSE IF ~ gemini_sentiment.present THEN <<hf_sentiment.confidence, 1>>
    ELSE <<hf_sentiment.confidence + gemini_sentiment.confidence, 2>>

\* sentiment_values.get(label, 5)
SentimentValue(label) ==
    IF label = "POSITIVE" THEN 8 ELSE IF label = "NEGATIVE" THEN 2 ELSE 5

\* impact_score_service.map_sentiment_to_score
map_sentiment_to_score(hf_sentiment, gemini_sentiment) ==
    LET hf_sent == RawSentiment(hf_sentiment)
        gemini_sent == RawSentiment(gemini_sentiment)
        values == (IF hf_sent # NullLabel THEN <<SentimentValue(hf_sent)>> ELSE <<>>) \o
                  (IF gemini_sent # NullLabel THEN <<SentimentValue(gemini_sent)>> ELSE <<>>)
        conf == AvgConfidence(hf_sentiment, gemini_sentiment)
    IN  IF values = <<>> THEN 0
        ELSE Min(1000, Max(0, (SumSeq(values) * conf[1] * 10) \div (Len(values) * conf[2])))

\* impact_score_service.calculate_quality_score
calculate_quality_score(hf_sentiment, gemini_sentiment) ==
    LET hf_sent == RawSentiment(hf_sentiment)
        gemini_sent == RawSentiment(gemini_sentiment)
        agreement_score == IF hf_sent = NullLabel /\ gemini_sent = NullLabel THEN 0
                           ELSE IF hf_sent = NullLabel \/ gemini_sent = NullLabel THEN 4
                           ELSE IF hf_sent = gemini_sent THEN 7 ELSE 3
        conf == AvgConfidence(hf_sentiment, gemini_sentiment)
    IN  IF ~ hf_sentiment.present /\ ~ gemini_sentiment.present THEN 0
        ELSE Min(1000, agreement_score * 100 + (conf[1] * 30) \div conf[2])

\* round(x, 1) of a value counted in units of 1/scale: tenths
Round1(x, scale) == (x * 10 + scale \div 2) \div scale

\* the final score is not capped
FinalImpactUncapped(base_impact, recency_boost) == base_impact * recency_boost

\* "min(10, base_impact * recency_boost)", in units of 1/100000
FinalImpact(base_impact, recency_boost) == Min(1000000, base_impact * recency_boost)

\* impact_score_service.calculate_impact_score; the scores returned are in tenths
calculate_impact_score(video_data, hf_sentiment, gemini_sentiment) ==
    LET reach_score == LogScore(video_data.view_count)
        engagement_score == EngagementScore(video_data.view_count, video_data.like_count,
                                            video_data.comment_count)
        sentiment_score == map_sentiment_to_score(hf_sentiment, gemini_sentiment)
        quality_score == calculate_quality_score(hf_sentiment, gemini_sentiment)
        influence_score == LogScore(video_data.subscriber_count)
        base_impact == reach_score * 25 + engagement_score * 30 + sentiment_score * 20
                       + quality_score * 15 + influence_score * 10
        recency_boost == calculate_recency_boost(video_data.published_at)
    IN  [impact_score |-> Round1(FinalImpact(base_impact, recency_boost), 100000),
         reach_score |-> Round1(reach_score, 100),
         engagement_score |-> Round1(engagement_score, 100),
         sentiment_score |-> Round1(sentiment_score, 100),
         quality_score |-> Round1(quality_score, 100),
         influence_score |-> Round1(influence_score, 100),
         recency_boost |-> recency_boost]

\* impact scores that calculate_impact_score returns (in tenths)
ImpactValues == {0, 6}

\* the score drawn where its value does not matter
ImpactSome == {6}

\* process_video / process_video_streaming, the scores handed to the store
VideoScores(impact, hf_sentiment, gemini_sentiment) ==
    IF hf_sentiment.present /\ gemini_sentiment.present
    THEN [impact_score |-> impact,
          overall_sentiment |-> determine_overall_sentiment(hf_sentiment, gemini_sentiment)[1],
          models_agree |-> determine_overall_sentiment(hf_sentiment, gemini_sentiment)[2]]
    ELSE [impact_score |-> impact, overall_sentiment |-> NullLabel, models_agree |-> FALSE]

\* ------------------------------------------------- the topic's aggregates
\* [v.impact_score for v in all_videos if v.impact_score is not None]
ImpactScores(vs, all_videos) ==
    LET kept == SelectSeq(all_videos, LAMBDA v : vs[v].impact_score # NullScore)
    IN  [i \in 1..Len(kept) |-> vs[kept[i]].impact_score]

\* "if impact_scores: topic.overall_impact_score = sum / len"
OverallImpact(old, impact_scores) ==
    IF impact_scores # <<>> THEN <<SumSeq(impact_scores), Len(impact_scores)>> ELSE old

\* sentiments.append(video_sentiments[0].sentiment) for the videos that have rows
FirstSentiments(st, all_videos) ==
    LET kept == SelectSeq(all_videos, LAMBDA v : st[v] # <<>>)
    IN  [i \in 1..Len(kept) |-> st[kept[i]][1].sentiment]

\* [s for s in sentiments if s and str(s).upper() != 'UNKNOWN']
FilterKnown(sentiments) ==
    SelectSeq(sentiments, LAMBDA s : s # NullLabel /\ s # "UNKNOWN")

\* Counter(filtered): its keys in insertion order
RECURSIVE CounterKeys(_)
CounterKeys(s) ==
    IF s = <<>> THEN <<>>
    ELSE LET front == CounterKeys(SubSeq(s, 1, Len(s) - 1))
         IN  IF \E i \in 1..Len(front) : front[i] = s[Len(s)]
             THEN front ELSE Append(front, s[Len(s)])

\* Counter(filtered)[label]
CountOf(s, label) == Cardinality({i \in 1..Len(s) : s[i] = label})

\* Counter.most_common(1)[0][0]: max() keeps the first of the largest counts
RECURSIVE MostCommonLast(_, _)
MostCommonLast(s, keys) ==
    IF Len(keys) = 1 THEN keys[1]
    ELSE LET best == MostCommonLast(s, SubSeq(keys, 1, Len(keys) - 1))
         IN  IF CountOf(s, keys[Len(keys)]) >= CountOf(s, best)
             THEN keys[Len(keys)] ELSE best
RECURSIVE MostCommon(_, _)
MostCommon(s, keys) ==
    IF Len(keys) = 1 THEN keys[1]
    ELSE LET best == MostCommon(s, SubSeq(keys, 1, Len(keys) - 1))
         IN  IF CountOf(s, keys[Len(keys)]) > CountOf(s, best)
             THEN keys[Len(keys)] ELSE best

\* the topic's overall sentiment
OverallSentiment(st, all_videos) ==
    LET filtered == FilterKnown(FirstSentiments(st, all_videos))
    IN  IF filtered # <<>> THEN MostCommon(filtered, CounterKeys(filtered)) ELSE NullLabel

\* ------------------------------------------------------ the video filter
\* is_valid_video(duration_minutes, language=None, max_minutes=35)
MaxMinutes == 35

\* the language codes that is_valid_video accepts
EnglishCodes == {"en", "en-us", "en-gb", "en-ca", "en-au"}

\* str.lower() on the language codes of the model
LowerCode(language) ==
    IF language = "EN-GB" THEN "en-gb" ELSE IF language = "en-US" THEN "en-us" ELSE language

\* any language passes
is_valid_video_any_language(duration_seconds, language) ==
    ~ (duration_seconds <= 0 \/ duration_seconds > MaxMinutes * 60)

\* youtube_service.is_valid_video; duration_minutes is total_seconds / 60.0,
\* compared here in seconds
is_valid_video(duration_seconds, language) ==
    IF duration_seconds <= 0 \/ duration_seconds > MaxMinutes * 60
    THEN FALSE
    ELSE IF language \notin {NullLabel, ""} /\ LowerCode(language) \notin EnglishCodes
    THEN FALSE
    ELSE TRUE

\* contentDetails.duration of an item of the videos endpoint, in seconds as
\* parse_iso8601_duration reads it (0 for a missing or unreadable duration)
ApiDurations == {0, 2100, 2101}

\* snippet.defaultAudioLanguage or snippet.defaultLanguage, NullLabel when
\* the item has neither
ApiLanguages == {NullLabel, "EN-GB", "en-IN", "hi"}

\* get_video_details: the entry of videos_details made from an item
VideoDetail(duration_seconds, api_language) ==
    LET language == IF api_language \in {NullLabel, ""} THEN "en" ELSE api_language
    IN  [duration_seconds |-> duration_seconds, language |-> language,
         is_valid |-> is_valid_video(duration_seconds, language)]

\* no entry for the video in videos_details
NoDetail == [duration_seconds |-> NullScore, language |-> NullLabel, is_valid |-> FALSE]

VideoDetails == {VideoDetail(d, l) : d \in ApiDurations, l \in ApiLanguages}

\* a video that passes and one that is too long
DetailsSome == {VideoDetail(2100, "en"), VideoDetail(2101, "en")}

\* --------------------------------------------------------- the run state
\* messages of the exceptions that collaborators raise; str(e) of a
\* timeout (asyncio.TimeoutError()) is the empty string
ExcMessages == {"", "err"}

Modes == {"streaming", "background"}

NoRun ==
    [pc |-> "none", mode |-> "streaming", found |-> 0, vids |-> <<>>,
     details |-> [v \in VideoIds |-> NoDetail],
     wk |-> <<>>, pending |-> <<>>, results |-> <<>>, arts |-> 0, calls |-> {},
     ended |-> FALSE]

\* the videos whose worker returned success, in item order
Succeeded(r) ==
    LET idx == SelectSeq([i \in 1..Len(r.wk) |-> i], LAMBDA i : r.wk[i].outcome = "success")
    IN  [k \in 1..Len(idx) |-> r.vids[idx[k]]]

\* the run has returned: its local variables are gone (the videos that it
\* analysed or reused are remembered as history)
DoneRun(r) == [NoRun EXCEPT !.pc = "done", !.mode = r.mode, !.vids = Succeeded(r)]

NoTranscription == [report |-> "none", late |-> FALSE]
NewWorker ==
    [pc |-> "start", entered |-> FALSE, hf |-> NoneResult, gem |-> NoneResult,
     report |-> NoTranscription, thread |-> FALSE, comments |-> FALSE,
     outcome |-> "none"]

\* sequences of distinct video ids of length n
RECURSIVE DistinctSeqs(_)
DistinctSeqs(n) ==
    IF n = 0 THEN {<<>>}
    ELSE {Append(s, v) : s \in DistinctSeqs(n - 1), v \in VideoIds} \cap
         {s \in [1..n -> VideoIds] : \A i, j \in 1..n : i # j => s[i] # s[j]}

\* what youtube_service.search_videos(topic_name, max_results=5) can return
\* to a topic that is alone: up to MaxFound videos, numbered as they come
SearchResults ==
    {[i \in 1..n |-> i] : n \in 0..Min(Min(MaxFound, MaxResults), NumVideoIds)}

\* s[:n]
Take(s, n) == SubSeq(s, 1, Min(n, Len(s)))

\* no topic, no video, an empty cache
InitStore ==
    /\ now = 0
    /\ ticks = 0
    /\ cache = <<>>
    /\ setInfo = <<>>
    /\ lastGet = NoGet
    /\ apiKey \in BOOLEAN
    /\ topics = [t \in TopicIds |-> NoTopic]
    /\ videos = [v \in VideoIds |-> NoVideo]
    /\ rows = <<>>
    /\ sents = [v \in VideoIds |-> <<>>]
    /\ run = [t \in TopicIds |-> NoRun]
    /\ news = NoNews
    /\ queue = <<>>
    /\ yielded = <<>>

Init == InitStore /\ call = NoCall

\* ------------------------------------------------------------ the events
\* an event that analyze_topic_streaming yields
Event(status, type, message) == [status |-> status, type |-> type, message |-> message]

\* {"status": "progress", "message": ..., "type": ...}
Progress(type, message) == Event("progress", type, message)

\* log_callback: "transcription_log_queue.put_nowait({"message": message})",
\* a dict with no other key
LogEntry(message) == [status |-> NullLabel, type |-> NullLabel, message |-> message]

\* the handler of analyze_topic_streaming: "Critical error: ..."
Critical == Event("error", "error", "Critical error")

\* the events as the generator of the run of topic t yields them: stream
\* names the generator
OnStream(t, events) ==
    [k \in 1..Len(events) |->
        [stream |-> t, status |-> events[k].status, type |-> events[k].type,
         message |-> events[k].message]]

\* the step of the run of topic t yields the events; analyze_topic, the
\* background analysis, yields nothing
Yields(t, events) ==
    yielded' = IF run[t].mode = "streaming" THEN OnStream(t, events) ELSE <<>>

\* ------------------------------------------------------ the environment
\* time passes
Tick(d) ==
    /\ ticks < MaxTicks
    /\ now' = now + d
    /\ ticks' = ticks + 1
    /\ lastGet' = NoGet
    /\ yielded' = <<>>
    /\ UNCHANGED <<cache, setInfo, apiKey, call, news, queue, topics, videos, rows, sents, run>>

\* main.create_topic / main.create_topic_streaming: the topic row is made and
\* its analysis is scheduled; topic_name is unique in the table.  A topic is
\* submitted when the analysis of the topics before it has ended.
CreateTopic(t, topic_name, m) ==
    /\ topics[t].analysis_status = "none"
    /\ \A u \in TopicIds : run[u].pc \in {"none", "done"}
    /\ \A u \in TopicIds : u < t => topics[u].analysis_status # "none"
    /\ \A u \in TopicIds : topics[u].analysis_status # "none" => topics[u].topic_name # topic_name
    /\ topics' = [topics EXCEPT ![t] = NewTopic(topic_name)]
    /\ run' = [run EXCEPT ![t] = [NoRun EXCEPT !.pc = "created", !.mode = m]]
    /\ lastGet' = NoGet
    /\ yielded' = <<>>
    /\ UNCHANGED <<now, ticks, cache, setInfo, apiKey, call, news, queue, videos, rows, sents>>

\* main.create_topic_streaming / main.create_topic, called while the
\* analyses of earlier topics may still run
CreateTopicAnyTime(t, topic_name, m) ==
    /\ topics[t].analysis_status = "none"
    /\ \A u \in TopicIds : u < t => topics[u].analysis_status # "none"
    /\ \A u \in TopicIds : topics[u].analysis_status # "none" => topics[u].topic_name # topic_name
    /\ topics' = [topics EXCEPT ![t] = NewTopic(topic_name)]
    /\ run' = [run EXCEPT ![t] = [NoRun EXCEPT !.pc = "created", !.mode = m]]
    /\ lastGet' = NoGet
    /\ yielded' = <<>>
    /\ UNCHANGED <<now, ticks, cache, setInfo, apiKey, call, news, queue, videos, rows, sents>>

\* cache_service.get_cached: InMemoryCache.get
CacheGetOp(key) ==
    /\ lastGet' = GetRecord(cache, key, now)
    /\ yielded' = <<>>
    /\ cache' = CacheGetCache(cache, key, now)
    /\ UNCHANGED <<now, ticks, setInfo, apiKey, call, news, queue, topics, videos, rows, sents, run>>

\* cache_service.set_cached: InMemoryCache.set
CacheSetOp(key, value, ttl) ==
    /\ cache' = CacheSet(cache, key, value, ttl, now)
    /\ setInfo' = SetRecord(key, value, ttl, now) @@ setInfo
    /\ lastGet' = NoGet
    /\ yielded' = <<>>
    /\ UNCHANGED <<now, ticks, apiKey, call, news, queue, topics, videos, rows, sents, run>>

\* cache_service.invalidate_topic_cache (admin endpoint)
InvalidateTopicCache(topic_name) ==
    /\ topic_search_key(topic_name) \in DOMAIN cache
    /\ cache' = CacheDelete(cache, topic_search_key(topic_name))
    /\ setInfo' = CacheDelete(setInfo, topic_search_key(topic_name))
    /\ lastGet' = NoGet
    /\ yielded' = <<>>
    /\ UNCHANGED <<now, ticks, apiKey, call, news, queue, topics, videos, rows, sents, run>>

\* cache_service.clear_all_cache (admin endpoint)
ClearAllCache ==
    /\ cache # <<>>
    /\ cache' = <<>>
    /\ setInfo' = <<>>
    /\ lastGet' = NoGet
    /\ yielded' = <<>>
    /\ UNCHANGED <<now, ticks, apiKey, call, news, queue, topics, videos, rows, sents, run>>

\* InMemoryCache.cleanup_expired (admin endpoint)
CleanupExpired ==
    /\ CacheCleanup(cache, now) # cache
    /\ cache' = CacheCleanup(cache, now)
    /\ lastGet' = NoGet
    /\ yielded' = <<>>
    /\ UNCHANGED <<now, ticks, setInfo, apiKey, call, news, queue, topics, videos, rows, sents, run>>

\* ------------------------------------------------------ the orchestrator
\* analyze_topic / analyze_topic_streaming: "except Exception as e:
\* db.rollback(); crud.update_topic_status(db, topic_id, "failed", str(e))"
FailKeepStatus(tp, t, message) == tp
Fail(tp, t, message) == update_topic_status(tp, t, "failed", message)

\* the cached sentiment is not copied
FromCacheNoSentiment(row, cached_result) ==
    [row EXCEPT !.total_videos = cached_result.total_videos,
                !.total_articles = cached_result.total_articles,
                !.overall_impact_score = cached_result.overall_impact_score,
                !.analysis_status = "completed"]

\* "topic.total_videos = cached_result.get('total_videos', 0) ..."
FromCache(row, cached_result) ==
    [row EXCEPT !.total_videos = cached_result.total_videos,
                !.total_articles = cached_result.total_articles,
                !.overall_impact_score = cached_result.overall_impact_score,
                !.overall_sentiment = cached_result.overall_sentiment,
                !.analysis_status = "completed"]

\* the final statistics: "topic.total_videos = len(videos) ... db.commit()"
Aggregated(row, r, vs, rw, st, t) ==
    LET all_videos == get_videos_by_topic(vs, rw, t)
    IN  [row EXCEPT !.videos_found = IF r.mode = "streaming" THEN r.found ELSE @,
                    !.total_videos = Len(r.vids),
                    !.total_articles = r.arts,
                    !.overall_impact_score = OverallImpact(@, ImpactScores(vs, all_videos)),
                    !.overall_sentiment = OverallSentiment(st, all_videos),
                    !.analysis_status = "completed"]

\* the number of videos that the search found is cached as total_videos
CacheDataFound(row, t) ==
    [total_videos |-> row.videos_found, total_articles |-> row.total_articles,
     overall_impact_score |-> row.overall_impact_score,
     overall_sentiment |-> row.overall_sentiment, analyzed_at |-> t]

\* cache_data
CacheData(row, t) ==
    [total_videos |-> row.total_videos, total_articles |-> row.total_articles,
     overall_impact_score |-> row.overall_impact_score,
     overall_sentiment |-> row.overall_sentiment, analyzed_at |-> t]

\* "transcription_log_queue = asyncio.Queue()" (analyze_topic_streaming) and
\* "crud.update_topic_status(db, topic_id, "processing")"
Start(t) ==
    /\ run[t].pc = "created"
    /\ topics' = update_topic_status(topics, t, "processing", NullMsg)
    /\ run' = [run EXCEPT ![t].pc = "check_cache"]
    /\ lastGet' = NoGet
    /\ queue' = IF run[t].mode = "streaming" THEN <<>> ELSE queue
    /\ Yields(t, <<Progress("info", "Initializing analysis pipeline...")>>)
    /\ UNCHANGED <<now, ticks, cache, setInfo, apiKey, call, news, videos, rows, sents>>

\* the cache check, and on a miss the API key check and the search call
CheckCache(t) ==
    LET key == topic_search_key(topics[t].topic_name)
        cached_result == CacheGetValue(cache, key, now)
    IN  /\ run[t].pc = "check_cache"
        /\ lastGet' = GetRecord(cache, key, now)
        /\ cache' = CacheGetCache(cache, key, now)
        /\ IF cached_result.hit
           THEN /\ topics' = [topics EXCEPT ![t] = FromCache(@, cached_result.value)]
                /\ run' = [run EXCEPT ![t] = DoneRun(@)]
           ELSE IF ~ apiKey
           THEN /\ topics' = Fail(topics, t, "YOUTUBE_API_KEY not set")
                /\ run' = [run EXCEPT ![t] = DoneRun(@)]
           ELSE /\ topics' = topics
                /\ run' = [run EXCEPT ![t].pc = "search",
                                      ![t].calls = @ \cup {"search_videos"}]
        /\ Yields(t, IF cached_result.hit
                     THEN <<Progress("success", "Found cached results!"),
                            Progress("success", "Retrieved videos and articles from cache")>>
                     ELSE IF ~ apiKey
                     THEN <<Event("error", "error", "YouTube API key not configured"), Critical>>
                     ELSE <<Progress("success", "API keys verified"),
                            Progress("info", "Searching YouTube")>>)
        /\ UNCHANGED <<now, ticks, setInfo, apiKey, call, news, queue, videos, rows, sents>>

\* youtube_service.search_videos raises
SearchRaises(t, message) ==
    /\ run[t].pc = "search"
    /\ topics' = Fail(topics, t, message)
    /\ run' = [run EXCEPT ![t] = DoneRun(@)]
    /\ lastGet' = NoGet
    /\ Yields(t, <<Critical>>)
    /\ UNCHANGED <<now, ticks, cache, setInfo, apiKey, call, news, queue, videos, rows, sents>>

\* youtube_service.search_videos returns
SearchReturns(t, found) ==
    /\ run[t].pc = "search"
    /\ IF found = <<>>
       THEN /\ topics' = update_topic_status(topics, t, "completed", "No videos found")
            /\ run' = [run EXCEPT ![t] = DoneRun(@)]
       ELSE /\ topics' = topics
            /\ run' = [run EXCEPT ![t].pc = "details", ![t].found = Len(found),
                                  ![t].vids = found,
                                  ![t].calls = @ \cup {"get_video_details"}]
    /\ lastGet' = NoGet
    /\ Yields(t, IF found = <<>>
                 THEN <<Progress("error", "No videos found")>>
                 ELSE <<Progress("success", "Found videos"),
                        Progress("info", "Fetching video details...")>>)
    /\ UNCHANGED <<now, ticks, cache, setInfo, apiKey, call, news, queue, videos, rows, sents>>

\* youtube_service.get_video_details raises
DetailsRaises(t, message) ==
    /\ run[t].pc = "details"
    /\ topics' = Fail(topics, t, message)
    /\ run' = [run EXCEPT ![t] = DoneRun(@)]
    /\ lastGet' = NoGet
    /\ Yields(t, <<Critical>>)
    /\ UNCHANGED <<now, ticks, cache, setInfo, apiKey, call, news, queue, videos, rows, sents>>

\* youtube_service.get_video_details returns video_details, the entries
\* details[v] of the videos it has one for; those with is_valid are kept, in
\* the order of the search, five at most
DetailsReturns(t, details) ==
    LET valid == {v \in VideoIds : details[v].is_valid}
        valid_videos == Take(SelectSeq(run[t].vids, LAMBDA v : v \in valid), MaxValid)
    IN  /\ run[t].pc = "details"
        /\ \A v \in VideoIds :
              v \notin {run[t].vids[i] : i \in 1..Len(run[t].vids)} => details[v] = NoDetail
        /\ IF valid_videos = <<>>
           THEN /\ topics' = update_topic_status(topics, t, "completed", "No valid videos found")
                /\ run' = [run EXCEPT ![t] = DoneRun(@)]
           ELSE /\ topics' = topics
                /\ run' = [run EXCEPT ![t].pc = "channels", ![t].vids = valid_videos,
                                      ![t].details = details,
                                      ![t].calls = @ \cup {"get_channel_details"}]
        /\ lastGet' = NoGet
        /\ Yields(t, IF valid_videos = <<>>
                     THEN <<Progress("error", "No valid videos found")>>
                     ELSE <<Progress("success", "Filtered to valid videos"),
                            Progress("info", "Fetching channel information...")>>)
        /\ UNCHANGED <<now, ticks, cache, setInfo, apiKey, call, news, queue, videos, rows, sents>>

\* youtube_service.get_channel_details raises
ChannelsRaises(t, message) ==
    /\ run[t].pc = "channels"
    /\ topics' = Fail(topics, t, message)
    /\ run' = [run EXCEPT ![t] = DoneRun(@)]
    /\ lastGet' = NoGet
    /\ Yields(t, <<Critical>>)
    /\ UNCHANGED <<now, ticks, cache, setInfo, apiKey, call, news, queue, videos, rows, sents>>

\* youtube_service.get_channel_details returns; one task per video is made
ChannelsReturns(t) ==
    /\ run[t].pc = "channels"
    /\ run' = [run EXCEPT ![t].pc = "fanout",
                          ![t].wk = [i \in 1..Len(run[t].vids) |-> NewWorker]]
    /\ lastGet' = NoGet
    /\ Yields(t, <<Progress("success", "Channel data retrieved"),
                   Progress("info", "Processing videos..."),
                   Progress("info", "Video 1")>>)
    /\ UNCHANGED <<now, ticks, cache, setInfo, apiKey, call, news, queue, topics, videos, rows, sents>>

\* ------------------------------------------------------ the item workers
\* The database session of a worker: analyze_topic hands its own session to
\* every process_video (session 0), process_video_with_session opens one
\* session per item (session i).
SessionOf(mode, i) == IF mode = "streaming" THEN i ELSE 0

\* a sentiment row added to a session by the worker of the i-th item
PendingRow(s, i, v, row) == [session |-> s, by |-> i, v |-> v, row |-> row]

\* the rows that session s holds uncommitted, and those of the other sessions
PendingOf(pending, s) ==
    LET InSession(e) == e.session = s IN SelectSeq(pending, InSession)
Cleared(pending, s) ==
    LET Elsewhere(e) == e.session # s IN SelectSeq(pending, Elsewhere)

\* db.commit(): the pending rows of the session are stored
RECURSIVE Stored(_, _)
Stored(store, entries) ==
    IF entries = <<>> THEN store
    ELSE Stored([store EXCEPT ![Head(entries).v] = Append(@, Head(entries).row)],
                Tail(entries))

\* the row is added to the session and left uncommitted
create_sentiment_uncommitted(store, pending, s, i, v, row) ==
    [store |-> store, pending |-> Append(pending, PendingRow(s, i, v, row))]

\* crud.create_sentiment: "db.add(db_sentiment); db.commit()"
create_sentiment(store, pending, s, i, v, row) ==
    LET added == Append(pending, PendingRow(s, i, v, row))
    IN  [store |-> Stored(store, PendingOf(added, s)), pending |-> Cleared(added, s)]

\* What transcribe_video does for an item: it returns status "success" with
\* a text ("text") or without one ("empty"), status "timeout", status
\* "failed", or it raises ("raised"); late: it takes more than 600 seconds.
Reports == {"text", "empty", "timeout", "failed", "raised"}
Transcription(report, late) == [report |-> report, late |-> late]
Transcriptions == {Transcription(r, l) : r \in Reports, l \in BOOLEAN}

\* the transcriptions drawn where the kind of the failure does not matter
TranscriptionSome == {Transcription("text", FALSE), Transcription("failed", FALSE)}

\* the branches after transcribe_video and the handler "except Exception"
Classified(report) ==
    IF report = "text" THEN "success" ELSE IF report = "timeout" THEN "timeout" ELSE "failed"

\* process_video_streaming: asyncio.wait_for(..., timeout=600.0) raises
\* asyncio.TimeoutError when the executor has not answered in time
StreamingStatus(o) == IF o.late THEN "timeout" ELSE Classified(o.report)

\* process_video: transcribe_video is called directly, whatever it takes
BackgroundStatus(o) == Classified(o.report)

\* the worker of the i-th video of the run of topic t is at pc p
WorkerAt(t, i, p) ==
    /\ run[t].pc = "fanout"
    /\ i \in 1..Len(run[t].wk)
    /\ run[t].wk[i].pc = p

\* the reuse check looks at the transcription status of the record
AlreadyTranscribed(vs, v) == vs[v].topic_id # 0 /\ vs[v].transcription_status = "success"

\* "if existing_video and existing_video.impact_score is not None"
AlreadyProcessed(vs, v) == vs[v].topic_id # 0 /\ vs[v].impact_score # NullScore

\* process_video_streaming / process_video has been called for the item
Entered(w) == [w EXCEPT !.entered = TRUE]

\* the task of the item is done
Finished(w, outcome) ==
    [w EXCEPT !.pc = "finished", !.outcome = outcome,
              !.hf = NoneResult, !.gem = NoneResult]

\* process_video_with_session: SessionLocal() raises, so does the task
WorkerRaises(t, i) ==
    /\ WorkerAt(t, i, "start")
    /\ run[t].mode = "streaming"
    /\ run' = [run EXCEPT ![t].wk[i] = Finished(@, "raised")]
    /\ lastGet' = NoGet
    /\ yielded' = <<>>
    /\ UNCHANGED <<now, ticks, cache, setInfo, apiKey, call, news, queue, topics, videos, rows, sents>>

\* the video was analysed before: "reused from cache"
WorkerReuses(t, i) ==
    /\ WorkerAt(t, i, "start")
    /\ AlreadyProcessed(videos, run[t].vids[i])
    /\ run' = [run EXCEPT ![t].wk[i] = Finished(Entered(@), "success")]
    /\ lastGet' = NoGet
    /\ yielded' = <<>>
    /\ UNCHANGED <<now, ticks, cache, setInfo, apiKey, call, news, queue, topics, videos, rows, sents>>

\* crud.create_video raises: the outer handler reports the failure
WorkerCreateFails(t, i) ==
    /\ WorkerAt(t, i, "start")
    /\ ~ AlreadyProcessed(videos, run[t].vids[i])
    /\ run' = [run EXCEPT ![t].wk[i] = Finished(Entered(@), "failure")]
    /\ lastGet' = NoGet
    /\ yielded' = <<>>
    /\ UNCHANGED <<now, ticks, cache, setInfo, apiKey, call, news, queue, topics, videos, rows, sents>>

\* transcribe_video, run in the executor for a worker of topic t, has
\* logged through log_callback; the lines it puts are modelled by one entry
Logged(t) == [topic |-> t, message |-> "[TRANSCRIPTION_LOG]"]

\* process_video_streaming: the record is made and the transcription is
\* awaited in the executor
StreamingStart(t, i) ==
    LET v == run[t].vids[i]
    IN  /\ WorkerAt(t, i, "start")
        /\ run[t].mode = "streaming"
        /\ ~ AlreadyProcessed(videos, v)
        /\ videos' = create_video(videos, v, t)
        /\ rows' = create_video_rows(videos, rows, v)
        /\ run' = [run EXCEPT ![t].wk[i].pc = "transcribe", ![t].wk[i].entered = TRUE,
                              ![t].calls = @ \cup {"transcribe_video"}]
        /\ lastGet' = NoGet
        /\ yielded' = <<>>
        /\ UNCHANGED <<now, ticks, cache, setInfo, apiKey, call, news, queue, topics, sents>>

\* crud.create_sentiment(db, hf_sentiment, db_video.id) and
\* crud.create_sentiment(db, gemini_sentiment, db_video.id) of the i-th worker
VaderSaved(t, i, hf) ==
    create_sentiment(sents, run[t].pending, SessionOf(run[t].mode, i), i,
                     run[t].vids[i], SentimentRow("vader", hf))
GeminiSaved(t, i, gem) ==
    create_sentiment(sents, run[t].pending, SessionOf(run[t].mode, i), i,
                     run[t].vids[i], SentimentRow("gemini", gem))

\* process_video_streaming: a transcript arrives; VADER answers at once and
\* the Gemini call raises TypeError (analyze_sentiment_advanced takes no
\* retry_count), so the next suspension is the entity extraction
StreamingTranscript(t, i, hf, o) ==
    LET v == run[t].vids[i]
    IN  /\ WorkerAt(t, i, "transcribe")
        /\ StreamingStatus(o) = "success"
        /\ videos' = [videos EXCEPT ![v].transcription_status = StreamingStatus(o)]
        /\ sents' = VaderSaved(t, i, hf).store
        /\ run' = [run EXCEPT ![t].wk[i].pc = "comments", ![t].wk[i].hf = hf,
                              ![t].wk[i].report = o,
                              ![t].pending = VaderSaved(t, i, hf).pending,
                              ![t].calls = @ \cup {"analyze_sentiment", "extract_entities"}]
        /\ queue' = Append(queue, Logged(t))
        /\ lastGet' = NoGet
        /\ yielded' = <<>>
        /\ UNCHANGED <<now, ticks, cache, setInfo, apiKey, call, news, topics, rows>>

\* process_video_streaming: a transcript arrives and crud.create_sentiment
\* raises for the VADER dict: the handler of the VADER step prints the
\* error, hf_sentiment keeps the dict, no row is stored
StreamingSentimentFails(t, i, hf, o) ==
    LET v == run[t].vids[i]
    IN  /\ WorkerAt(t, i, "transcribe")
        /\ StreamingStatus(o) = "success"
        /\ videos' = [videos EXCEPT ![v].transcription_status = StreamingStatus(o)]
        /\ run' = [run EXCEPT ![t].wk[i].pc = "comments", ![t].wk[i].hf = hf,
                              ![t].wk[i].report = o,
                              ![t].calls = @ \cup {"analyze_sentiment", "extract_entities"}]
        /\ queue' = Append(queue, Logged(t))
        /\ lastGet' = NoGet
        /\ yielded' = <<>>
        /\ UNCHANGED <<now, ticks, cache, setInfo, apiKey, call, news, topics, rows, sents>>

\* the sentiment branch taken whatever the transcript is: VADER is called on
\* the missing text and declines
StreamingNoTranscriptAnalysed(t, i, o) ==
    LET v == run[t].vids[i]
    IN  /\ WorkerAt(t, i, "transcribe")
        /\ StreamingStatus(o) # "success"
        /\ videos' = [videos EXCEPT ![v].transcription_status = StreamingStatus(o)]
        /\ run' = [run EXCEPT ![t].wk[i].pc = "comments", ![t].wk[i].report = o,
                              ![t].wk[i].hf = Declined,
                              ![t].wk[i].thread = o.late,
                              ![t].wk[i].comments = TRUE,
                              ![t].calls = @ \cup {"analyze_sentiment", "get_video_comments"}]
        /\ queue' = Append(queue, Logged(t))
        /\ lastGet' = NoGet
        /\ yielded' = <<>>
        /\ UNCHANGED <<now, ticks, cache, setInfo, apiKey, call, news, topics, rows, sents>>

\* process_video_streaming: no transcript; the comments are fetched next
StreamingNoTranscript(t, i, o) ==
    LET v == run[t].vids[i]
    IN  /\ WorkerAt(t, i, "transcribe")
        /\ StreamingStatus(o) # "success"
        /\ videos' = [videos EXCEPT ![v].transcription_status = StreamingStatus(o)]
        /\ run' = [run EXCEPT ![t].wk[i].pc = "comments", ![t].wk[i].report = o,
                              ![t].wk[i].thread = o.late,
                              ![t].wk[i].comments = TRUE,
                              ![t].calls = @ \cup {"get_video_comments"}]
        /\ queue' = Append(queue, Logged(t))
        /\ lastGet' = NoGet
        /\ yielded' = <<>>
        /\ UNCHANGED <<now, ticks, cache, setInfo, apiKey, call, news, topics, rows, sents>>

\* process_video: transcribe_video is called without await, VADER
\* answers at once; the first suspension is the Gemini call
BackgroundTranscript(t, i, hf, o) ==
    LET v == run[t].vids[i]
    IN  /\ WorkerAt(t, i, "start")
        /\ run[t].mode = "background"
        /\ ~ AlreadyProcessed(videos, v)
        /\ BackgroundStatus(o) = "success"
        /\ videos' = [create_video(videos, v, t) EXCEPT
                         ![v].transcription_status = BackgroundStatus(o)]
        /\ rows' = create_video_rows(videos, rows, v)
        /\ sents' = VaderSaved(t, i, hf).store
        /\ run' = [run EXCEPT ![t].wk[i].pc = "gemini", ![t].wk[i].entered = TRUE, ![t].wk[i].hf = hf,
                              ![t].wk[i].report = o,
                              ![t].pending = VaderSaved(t, i, hf).pending,
                              ![t].calls = @ \cup {"transcribe_video", "analyze_sentiment",
                                                   "analyze_sentiment_advanced"}]
        /\ lastGet' = NoGet
        /\ yielded' = <<>>
        /\ UNCHANGED <<now, ticks, cache, setInfo, apiKey, call, news, queue, topics>>

\* process_video: no transcript; nothing is awaited up to the scores, which
\* are stored (scored) or whose computation or storing raises
BackgroundNoTranscript(t, i, o, scored, impact) ==
    LET v == run[t].vids[i]
        made == [create_video(videos, v, t) EXCEPT
                   ![v].transcription_status = BackgroundStatus(o)]
    IN  /\ WorkerAt(t, i, "start")
        /\ run[t].mode = "background"
        /\ ~ AlreadyProcessed(videos, v)
        /\ BackgroundStatus(o) # "success"
        /\ videos' = IF scored
                     THEN update_video_scores(made, v, VideoScores(impact, NoneResult, NoneResult))
                     ELSE made
        /\ rows' = create_video_rows(videos, rows, v)
        /\ run' = [run EXCEPT ![t].wk[i] = Finished([Entered(@) EXCEPT !.report = o],
                                                        IF scored THEN "success" ELSE "failure"),
                              ![t].calls = @ \cup {"transcribe_video"}]
        /\ lastGet' = NoGet
        /\ yielded' = <<>>
        /\ UNCHANGED <<now, ticks, cache, setInfo, apiKey, call, news, queue, topics, sents>>

\* process_video: gemini_service.analyze_sentiment_advanced returns
GeminiReturns(t, i, gem) ==
    LET v == run[t].vids[i]
    IN  /\ WorkerAt(t, i, "gemini")
        /\ sents' = GeminiSaved(t, i, gem).store
        /\ run' = [run EXCEPT ![t].wk[i].pc = "comments", ![t].wk[i].gem = gem,
                              ![t].pending = GeminiSaved(t, i, gem).pending,
                              ![t].calls = @ \cup {"extract_entities"}]
        /\ lastGet' = NoGet
        /\ yielded' = <<>>
        /\ UNCHANGED <<now, ticks, cache, setInfo, apiKey, call, news, queue, topics, videos, rows>>

\* process_video: gemini_service.analyze_sentiment_advanced raises
GeminiRaises(t, i) ==
    /\ WorkerAt(t, i, "gemini")
    /\ run' = [run EXCEPT ![t].wk[i].pc = "comments",
                          ![t].calls = @ \cup {"extract_entities"}]
    /\ lastGet' = NoGet
    /\ yielded' = <<>>
    /\ UNCHANGED <<now, ticks, cache, setInfo, apiKey, call, news, queue, topics, videos, rows, sents>>

\* the impact score is computed and crud.update_video_scores stores it and
\* commits the session
WorkerScores(t, i, impact) ==
    LET v == run[t].vids[i]
        w == run[t].wk[i]
    IN  /\ WorkerAt(t, i, "comments")
        /\ videos' = update_video_scores(videos, v, VideoScores(impact, w.hf, w.gem))
        /\ sents' = Stored(sents, PendingOf(run[t].pending, SessionOf(run[t].mode, i)))
        /\ run' = [run EXCEPT ![t].wk[i] = Finished([@ EXCEPT !.comments = TRUE], "success"),
                              ![t].pending = Cleared(@, SessionOf(run[t].mode, i)),
                              ![t].calls = @ \cup {"get_video_comments"}]
        /\ lastGet' = NoGet
        /\ yielded' = <<>>
        /\ UNCHANGED <<now, ticks, cache, setInfo, apiKey, call, news, queue, topics, rows>>

\* the exception of the scoring step leaves the worker (no outer handler)
WorkerScoreEscapes(t, i) ==
    /\ WorkerAt(t, i, "comments")
    /\ run' = [run EXCEPT ![t].wk[i] = Finished(@, "raised")]
    /\ lastGet' = NoGet
    /\ yielded' = <<>>
    /\ UNCHANGED <<now, ticks, cache, setInfo, apiKey, call, news, queue, topics, videos, rows, sents>>

\* the computation or the storing of the scores raises: "db.rollback(); raise"
\* empties the worker's session
\* and the outer handler returns {"success": False}
WorkerScoreFails(t, i) ==
    /\ WorkerAt(t, i, "comments")
    /\ run' = [run EXCEPT ![t].wk[i] = Finished([@ EXCEPT !.comments = TRUE], "failure"),
                          ![t].pending = Cleared(@, SessionOf(run[t].mode, i)),
                          ![t].calls = @ \cup {"get_video_comments"}]
    /\ lastGet' = NoGet
    /\ yielded' = <<>>
    /\ UNCHANGED <<now, ticks, cache, setInfo, apiKey, call, news, queue, topics, videos, rows, sents>>

\* ------------------------------------------- collecting, news, statistics
\* the indices of the tasks that are done and not yet seen by the loop
DoneTasks(r) == {i \in 1..Len(r.wk) : r.wk[i].pc = "finished"}

\* "result = task.result(); results.append(result)" and, when the task
\* raised, "results.append({"success": False, ...})"
ResultOf(w, i) == [idx |-> i, success |-> w.outcome = "success"]

RECURSIVE ResultsOf(_, _)
ResultsOf(r, done) ==
    IF done = {} THEN <<>>
    ELSE LET i == CHOOSE j \in done : \A k \in done : j <= k
         IN  <<ResultOf(r.wk[i], i)>> \o ResultsOf(r, done \ {i})

\* the loop is left at the first task that raised: the tasks still pending
\* are abandoned
CollectedBreak(r) ==
    [r EXCEPT !.results = @ \o ResultsOf(r, DoneTasks(r)),
              !.wk = [i \in 1..Len(r.wk) |->
                        IF i \in DoneTasks(r) \/ \E j \in DoneTasks(r) : r.wk[j].outcome = "raised"
                        THEN [r.wk[i] EXCEPT !.pc = "collected"]
                        ELSE r.wk[i]]]

\* one round of "done, pending = await asyncio.wait(pending, ...)"
Collected(r) ==
    [r EXCEPT !.results = @ \o ResultsOf(r, DoneTasks(r)),
              !.wk = [i \in 1..Len(r.wk) |->
                        IF i \in DoneTasks(r) THEN [r.wk[i] EXCEPT !.pc = "collected"]
                        ELSE r.wk[i]]]

\* the entries of the queue as analyze_topic_streaming yields them
Relayed(q) == [k \in 1..Len(q) |-> LogEntry(q[k].message)]

\* analyze_topic_streaming: one round of the loop "while pending": an entry
\* of the queue, if any, is yielded and the finished tasks are taken; when
\* none is pending the queue is drained, the count is reported and the
\* recent news are searched
Collect(t) ==
    LET r == Collected(run[t])
        all == \A i \in 1..Len(r.wk) : r.wk[i].pc = "collected"
        failed == \E k \in 1..Len(r.results) : ~ r.results[k].success
    IN  /\ run[t].pc = "fanout"
        /\ run[t].mode = "streaming"
        /\ queue # <<>> \/ DoneTasks(run[t]) # {}
        /\ run' = [run EXCEPT ![t] =
                     IF all THEN [r EXCEPT !.pc = "news_recent",
                                           !.calls = @ \cup {"search_articles"}]
                     ELSE r]
        /\ queue' = IF all \/ queue = <<>> THEN <<>> ELSE Tail(queue)
        /\ yielded' = OnStream(t,
                         IF all
                         THEN Relayed(queue) \o
                              <<IF failed THEN Progress("warning", "Processed videos (some failed)")
                                ELSE Progress("success", "Processed videos successfully"),
                                Progress("info", "Searching news articles...")>>
                         ELSE Relayed(Take(queue, 1)))
        /\ lastGet' = NoGet
        /\ UNCHANGED <<now, ticks, cache, setInfo, apiKey, call, news, topics, videos, rows, sents>>

\* analyze_topic: "await asyncio.gather(*video_tasks, return_exceptions=True)"
GatherDone(t) ==
    /\ run[t].pc = "fanout"
    /\ run[t].mode = "background"
    /\ \A i \in 1..Len(run[t].wk) : run[t].wk[i].pc = "finished"
    /\ run' = [run EXCEPT ![t].pc = "news_recent",
                          ![t].wk = [i \in 1..Len(run[t].wk) |->
                                        [run[t].wk[i] EXCEPT !.pc = "collected"]],
                          ![t].calls = @ \cup {"search_articles"}]
    /\ lastGet' = NoGet
    /\ yielded' = <<>>
    /\ UNCHANGED <<now, ticks, cache, setInfo, apiKey, call, news, queue, topics, videos, rows, sents>>

\* what a news search yields: its count, nothing when it found nothing, a
\* warning when it raised
NewsEvents(n) ==
    IF n > 0 THEN {<<Progress("success", "Found articles")>>}
    ELSE {<<>>, <<Progress("warning", "News API unavailable, continuing...")>>}

\* news_service.search_articles returns n articles, or raises (n = 0)
NewsRecent(t, n) ==
    /\ run[t].pc = "news_recent"
    /\ run' = [run EXCEPT ![t].pc = "news_hist", ![t].arts = n,
                          ![t].calls = @ \cup {"search_guardian_articles"}]
    /\ lastGet' = NoGet
    /\ \E events \in NewsEvents(n) : Yields(t, events)
    /\ UNCHANGED <<now, ticks, cache, setInfo, apiKey, call, news, queue, topics, videos, rows, sents>>

\* the statistics are committed and the summary is cached, after the
\* events of the step so far
Finish(t, events) ==
    LET row == Aggregated(topics[t], run[t], videos, rows, sents, t)
        key == topic_search_key(topics[t].topic_name)
    IN  /\ topics' = [topics EXCEPT ![t] = row]
        /\ cache' = CacheSet(cache, key, CacheData(row, now), TopicTTL, now)
        /\ setInfo' = SetRecord(key, CacheData(row, now), TopicTTL, now) @@ setInfo
        /\ lastGet' = NoGet
        /\ Yields(t, events \o <<Progress("info", "Calculating final statistics..."),
                                  Progress("success", "Analysis complete!")>>)
        /\ UNCHANGED <<now, ticks, apiKey, call, news, queue, videos, rows, sents>>

\* news_service.search_guardian_articles returns n articles, or raises
\* (n = 0); with no article at all nothing is awaited up to the statistics
NewsHistorical(t, n) ==
    /\ run[t].pc = "news_hist"
    /\ IF run[t].arts + n = 0
       THEN /\ run' = [run EXCEPT ![t] = DoneRun(@)]
            /\ \E events \in NewsEvents(n) :
                   Finish(t, events \o <<Progress("warning", "No news articles found")>>)
       ELSE /\ run' = [run EXCEPT ![t].pc = "articles", ![t].arts = @ + n,
                                  ![t].calls = @ \cup {"summarize_article"}]
            /\ lastGet' = NoGet
            /\ \E events \in NewsEvents(n) :
                   Yields(t, events \o <<Progress("info", "Summarizing articles with AI...")>>)
            /\ UNCHANGED <<now, ticks, cache, setInfo, apiKey, call, news, queue, topics, videos, rows, sents>>

\* what the article loop yields: the progress, or a warning for an article
\* that raised
ArticleEvents ==
    {<<Progress("info", "Processed article")>>, <<Progress("warning", "Article failed")>>}

\* the articles are summarized and stored; then the statistics
ArticlesDone(t) ==
    /\ run[t].pc = "articles"
    /\ run' = [run EXCEPT ![t] = DoneRun(@)]
    /\ \E events \in ArticleEvents :
           Finish(t, events \o <<Progress("success", "All articles summarized")>>)

\* ----------------------------------------------------- the specifications
\* the tasks of a run are scheduled one after the other (a schedule that
\* asyncio may choose), or in any interleaving
InTurn(t, i, serial) ==
    serial => \A j \in 1..(i - 1) : j <= Len(run[t].wk) => run[t].wk[j].pc \in {"finished", "collected"}

\* the steps of the orchestrator for the topics T, the searches returning
\* one of F, the details of a video being one of D, each news source
\* returning one of N numbers of articles
Orchestrator(T, F, D, N) ==
    \/ \E t \in T : Start(t)
    \/ \E t \in T : CheckCache(t)
    \/ \E t \in T, e \in ExcMessages : SearchRaises(t, e)
    \/ \E t \in T, f \in F : SearchReturns(t, f)
    \/ \E t \in T, e \in ExcMessages : DetailsRaises(t, e)
    \/ \E t \in T :
           /\ run[t].pc = "details"
           /\ \E details \in [VideoIds -> D \cup {NoDetail}] : DetailsReturns(t, details)
    \/ \E t \in T, e \in ExcMessages : ChannelsRaises(t, e)
    \/ \E t \in T : ChannelsReturns(t)
    \/ \E t \in T : Collect(t)
    \/ \E t \in T : GatherDone(t)
    \/ \E t \in T, n \in N : NewsRecent(t, n)
    \/ \E t \in T, n \in N : NewsHistorical(t, n)
    \/ \E t \in T : ArticlesDone(t)

\* the steps of the item workers, the collaborators answering from H
\* (VADER), G (Gemini), S (transcription) and X (impact scores)
Workers(T, H, G, S, X, serial) ==
    \E t \in T, i \in 1..MaxResults :
        /\ InTurn(t, i, serial)
        /\ \/ WorkerRaises(t, i)
           \/ WorkerReuses(t, i)
           \/ WorkerCreateFails(t, i)
           \/ StreamingStart(t, i)
           \/ \E hf \in H, st \in S : StreamingTranscript(t, i, hf, st)
           \/ \E st \in S : StreamingNoTranscript(t, i, st)
           \/ \E hf \in H, st \in S : BackgroundTranscript(t, i, hf, st)
           \/ \E st \in S, scored \in BOOLEAN, x \in X : BackgroundNoTranscript(t, i, st, scored, x)
           \/ \E g \in G : GeminiReturns(t, i, g)
           \/ GeminiRaises(t, i)
           \/ \E x \in X : WorkerScores(t, i, x)
           \/ WorkerScoreFails(t, i)

\* one topic, its items processed concurrently
Next ==
    \/ \E m \in Modes : CreateTopic(1, <<"A">>, m)
    \/ Orchestrator({1}, SearchResults, DetailsSome, 0..MaxNews)
    \/ Workers({1}, HfSome, GeminiResults, TranscriptionSome, ImpactSome, FALSE)
Spec == Init /\ [][Next]_vars

\* topics submitted one after the other, each search returning at most one
\* video, while time passes and the cache is invalidated
NextTopics ==
    \/ Tick(TopicTTL)
    \/ \E t \in TopicIds, n \in TopicNames, m \in Modes : CreateTopic(t, n, m)
    \/ \E n \in TopicNames : InvalidateTopicCache(n)
    \/ Orchestrator(TopicIds, DistinctSeqs(0) \cup DistinctSeqs(1), DetailsSome, {MaxNews})
    \/ Workers(TopicIds, HfSome, GeminiResults, TranscriptionSome, ImpactSome, FALSE)

SpecTopics == Init /\ [][NextTopics]_vars

\* the cache alone, driven through cache_service while time passes
CacheKeys == {ListKey, topic_search_key(<<"A">>)}
CacheValues == {[count |-> 1], [count |-> 2]}

NextCache ==
    \/ \E d \in {ListTTL, TopicTTL} : Tick(d)
    \/ \E k \in CacheKeys : CacheGetOp(k)
    \/ \E k \in CacheKeys, v \in CacheValues, ttl \in {ListTTL, TopicTTL} : CacheSetOp(k, v, ttl)
    \/ \E n \in TopicNames : InvalidateTopicCache(n)
    \/ ClearAllCache
    \/ CleanupExpired

SpecCache == Init /\ [][NextCache]_vars

\* one topic with three videos, its tasks scheduled one after the other
NextItems ==
    \/ \E m \in Modes : CreateTopic(1, <<"A">>, m)
    \/ Orchestrator({1}, {<<1, 2, 3>>}, DetailsSome, {MaxNews})
    \/ Workers({1}, HfResults, GeminiResults, TranscriptionSome, ImpactValues, TRUE)

SpecItems == Init /\ [][NextItems]_vars

\* one topic, every enabled step of its run eventually taken
NextRun ==
    \/ \E m \in Modes : CreateTopic(1, <<"A">>, m)
    \/ Orchestrator({1}, SearchResults, DetailsSome, {MaxNews})
    \/ Workers({1}, HfSome, GeminiResults, TranscriptionSome, ImpactSome, FALSE)

SpecFair == Init /\ [][NextRun]_vars /\ WF_vars(NextRun)

\* one run, with the durations and languages of the videos it finds
NextFilter ==
    \/ \E m \in Modes : CreateTopic(1, <<"A">>, m)
    \/ Orchestrator({1}, SearchResults, VideoDetails, {MaxNews})
    \/ Workers({1}, HfSome, GeminiResults, TranscriptionSome, ImpactSome, TRUE)

SpecFilter == Init /\ [][NextFilter]_vars

\* -------------------------------------------- the scoring services, alone
\* the call made in the initial state returns
Returned(value) ==
    /\ ~ call.returned
    /\ call' = [call EXCEPT !.returned = TRUE, !.ret = value]
    /\ UNCHANGED <<now, ticks, cache, setInfo, lastGet, apiKey, topics, videos, rows, sents, run, news, queue, yielded>>

Calls(fn, args) == {[fn |-> fn, args |-> a, returned |-> FALSE, ret |-> <<>>] : a \in args}

\* the dicts that the models hand over: None, no label, a label in either case
FuseLabels == {NullLabel, "", "POSITIVE", "positive", "NEGATIVE", "NEUTRAL"}
FuseConfidences == {0, 5, 9}
FuseRecords ==
    {NoneResult} \cup
    {[present |-> TRUE, sentiment |-> l, confidence |-> c] : l \in FuseLabels, c \in FuseConfidences}

FuseReturns ==
    /\ call.fn = "determine_overall_sentiment"
    /\ Returned(determine_overall_sentiment(call.args[1], call.args[2]))

InitFuse ==
    /\ InitStore
    /\ call \in Calls("determine_overall_sentiment", FuseRecords \X FuseRecords)

SpecFuse == InitFuse /\ [][FuseReturns]_vars

\* publish times: none given to the function, a publishedAt that is
\* missing or malformed, or a time so many hours ago (or ahead)
NoTime == [kind |-> "none", age |-> 0]
PublishTimes ==
    {[kind |-> k, age |-> 0] : k \in {"missing", "malformed"}} \cup
    {[kind |-> "time", age |-> h] : h \in (0 - 24)..(MaxAgeDays * 24)}

\* the local zone of the host, in hours ahead of UTC
TzOffsets == {0 - 8, 0, 5}

\* the boost of an item as the pipeline computes it: search_videos parses
\* publishedAt, calculate_impact_score passes the result on
ItemBoostReturns ==
    /\ call.fn = "item_recency_boost"
    /\ Returned(calculate_recency_boost(parse_youtube_datetime(call.args[1], call.args[2])))

\* calculate_recency_boost called on its own
RecencyBoostReturns ==
    /\ call.fn = "calculate_recency_boost"
    /\ Returned(calculate_recency_boost(call.args[1]))

InitRecency ==
    /\ InitStore
    /\ call \in Calls("item_recency_boost", PublishTimes \X TzOffsets) \cup
                 Calls("calculate_recency_boost", {<<p>> : p \in PublishTimes \cup {NoTime}})

NextRecency == ItemBoostReturns \/ RecencyBoostReturns

SpecRecency == InitRecency /\ [][NextRecency]_vars

\* video_data: the counters are powers of ten less one, where log10 is exact
ViewCounts == {0, 9, 999, 9999999, 999999999}
LikeCounts == {0, 1, 50000}
SubscriberCounts == {0, 999, 999999999}
ImpactTimes == {NoTime, [kind |-> "time", age |-> 0], [kind |-> "time", age |-> 100 * 24]}
VideoData ==
    [view_count : ViewCounts, like_count : LikeCounts, comment_count : LikeCounts,
     subscriber_count : SubscriberCounts, published_at : ImpactTimes]

\* sentiment_data: each model's dict or None, confidences from 0 to 1
ImpactRecords ==
    {NoneResult, Declined, Result("POSITIVE", 10), Result("NEGATIVE", 0), Result("NEUTRAL", 5)}

ImpactReturns ==
    /\ call.fn = "calculate_impact_score"
    /\ Returned(calculate_impact_score(call.args[1], call.args[2], call.args[3]))

InitImpact ==
    /\ InitStore
    /\ call \in Calls("calculate_impact_score", VideoData \X ImpactRecords \X ImpactRecords)

SpecImpact == InitImpact /\ [][ImpactReturns]_vars

\* ------------------------------------------------- the articles of a run
\* pipeline.analyze_topic: batch_size = 5
BatchSize == 5
\* pipeline.analyze_topic: await asyncio.sleep(2) between batches
BatchDelay == 2
\* pipeline.analyze_topic_streaming: await asyncio.sleep(1) after an article
ArticleDelay == 1
\* process_article_with_retry: max_retries = 2
MaxRetries == 2
\* article_data["relevance_score"] = 50
DefaultRelevance == 50

ArticleModes == {"streaming", "background"}

\* an article of all_articles: where its processing stands, and its history
\* (when it was handed over and returned, the attempts made, the quota
\* answers Gemini gave for it, the back-offs waited)
NewArticle ==
    [pc |-> "new", wake |-> 0, gist |-> NullGist, relevance |-> NullScore,
     saved |-> FALSE, refused |-> FALSE, handed |-> 0, started |-> NullScore,
     finished |-> NullScore, attempts |-> 0, signals |-> 0, backoffs |-> <<>>]

\* What Gemini does on a summary request: "gist" answers, "quota" refuses
\* with 429 (quota exceeded), "invalid" answers with text that is not JSON.
\* "configure429" and "configure" are genai.configure raising before the
\* try block of summarize_article, with and without "429" in the message.
GeminiAnswers == {"gist", "quota", "invalid", "configure429", "configure"}
QuotaAnswers == {"quota", "configure429"}

\* gemini_service.summarize_article: every exception of the request is
\* caught and comes back as a dict whose gist holds the error text
summarize_article(answer) ==
    CASE answer = "gist" -> [raised |-> FALSE, gist |-> "gist", msg |-> NullMsg]
      [] answer = "quota" ->
            [raised |-> FALSE, gist |-> "Error generating summary: 429", msg |-> NullMsg]
      [] answer = "invalid" ->
            [raised |-> FALSE, gist |-> "Error generating summary: json", msg |-> NullMsg]
      [] answer = "configure429" -> [raised |-> TRUE, gist |-> NullGist, msg |-> "429"]
      [] OTHER -> [raised |-> TRUE, gist |-> NullGist, msg |-> "boom"]

\* "429" in error_str or "quota" in error_str.lower()
IsQuota(error_str) == error_str \in {"429", "Quota exceeded"}

\* gemini_service.calculate_news_relevance: a score clamped to 0..100, 50
\* when the request fails
RelevanceScores == {DefaultRelevance, 80}

\* 2 ** n
Pow2(n) == IF n = 0 THEN 1 ELSE IF n = 1 THEN 2 ELSE 4

\* one pass of the loop "for attempt in range(max_retries)" of
\* process_article_with_retry, up to its return or its sleep
Attempt(a, answer, relevance, time) ==
    LET res == summarize_article(answer)
        attempt == a.attempts
        wait_time == Pow2(attempt) * 10
        b == [a EXCEPT !.attempts = @ + 1,
                       !.signals = @ + (IF answer \in QuotaAnswers THEN 1 ELSE 0)]
    IN IF ~ res.raised
       THEN [b EXCEPT !.gist = res.gist, !.relevance = relevance,
                      !.pc = "returned", !.finished = time]
       ELSE IF IsQuota(res.msg)
       THEN IF attempt < MaxRetries - 1
            THEN [b EXCEPT !.pc = "sleeping", !.wake = time + wait_time,
                           !.backoffs = Append(@, wait_time)]
            ELSE [b EXCEPT !.gist = "Summary unavailable (rate limit)",
                           !.relevance = DefaultRelevance,
                           !.pc = "returned", !.finished = time]
       ELSE [b EXCEPT !.gist = "Summary unavailable: boom",
                      !.relevance = DefaultRelevance,
                      !.pc = "returned", !.finished = time]

\* crud.create_article on the session of the run: "db.add(db_article);
\* db.commit()". The database accepts the row or refuses it (the flush
\* raises); a session whose flush has failed is inactive and raises on every
\* statement until db.rollback() is called.
create_article(session, accepted) ==
    IF session = "inactive" THEN [saved |-> FALSE, refused |-> FALSE, session |-> session]
    ELSE IF accepted THEN [saved |-> TRUE, refused |-> FALSE, session |-> session]
    ELSE [saved |-> FALSE, refused |-> TRUE, session |-> "inactive"]

\* the loop body of analyze_topic_streaming for one article: summary,
\* relevance and create_article in one try; an exception skips the rest
StreamedArticle(a, answer, relevance, made, time) ==
    LET res == summarize_article(answer)
        b == [a EXCEPT !.attempts = @ + 1, !.handed = @ + 1,
                       !.started = time, !.finished = time, !.pc = "returned",
                       !.signals = @ + (IF answer \in QuotaAnswers THEN 1 ELSE 0)]
    IN IF res.raised
       THEN b
       ELSE [b EXCEPT !.gist = res.gist, !.relevance = relevance,
                      !.saved = made.saved, !.refused = made.refused]

\* the articles batch[i : i + batch_size]
BatchOf(i, n) == (i + 1)..Min(i + BatchSize, n)

\* all_articles = recent_articles + historical_articles, of n articles
ArticlesStart(mode, n) ==
    /\ news.pc = "idle"
    /\ news' = [NoNews EXCEPT !.mode = mode,
                              !.pc = IF n = 0 THEN "done" ELSE "loop",
                              !.items = [j \in 1..n |-> NewArticle]]
    /\ UNCHANGED <<now, ticks, cache, setInfo, lastGet, apiKey, topics, videos,
                   rows, sents, run, call, queue, yielded>>

\* analyze_topic_streaming: the next article, then asyncio.sleep(1) unless
\* the article raised
StreamArticle(answer, relevance, saves) ==
    /\ news.mode = "streaming"
    /\ news.pc = "loop"
    /\ LET j == news.i + 1
           made == create_article(news.session, saves)
           a == StreamedArticle(news.items[j], answer, relevance, made, news.time)
           slept == ~ summarize_article(answer).raised /\ made.saved
       IN news' = [news EXCEPT !.items[j] = a,
                               !.session = IF summarize_article(answer).raised
                                           THEN @ ELSE made.session,
                               !.i = IF slept THEN @ ELSE j,
                               !.pc = IF slept THEN "sleep"
                                      ELSE IF j = Len(news.items) THEN "done"
                                      ELSE "loop",
                               !.wake = IF slept THEN news.time + ArticleDelay ELSE @,
                               !.sleeps = IF slept
                                          THEN Append(@, [after |-> j, d |-> ArticleDelay])
                                          ELSE @]
    /\ UNCHANGED <<now, ticks, cache, setInfo, lastGet, apiKey, topics, videos,
                   rows, sents, run, call, queue, yielded>>

\* analyze_topic_streaming: asyncio.sleep(1) is over
StreamWakes ==
    /\ news.mode = "streaming"
    /\ news.pc = "sleep"
    /\ news.time >= news.wake
    /\ news' = [news EXCEPT !.i = @ + 1,
                            !.pc = IF news.i + 1 = Len(news.items) THEN "done"
                                   ELSE "loop"]
    /\ UNCHANGED <<now, ticks, cache, setInfo, lastGet, apiKey, topics, videos,
                   rows, sents, run, call, queue, yielded>>

\* analyze_topic: the tasks of the batch at i are made and handed to
\* asyncio.gather
GatherBatch ==
    /\ news.mode = "background"
    /\ news.pc = "loop"
    /\ news' = [news EXCEPT
                  !.pc = "gather",
                  !.items = [j \in 1..Len(news.items) |->
                               IF j \in BatchOf(news.i, Len(news.items))
                               THEN [news.items[j] EXCEPT !.pc = "ready",
                                                          !.handed = @ + 1,
                                                          !.started = news.time]
                               ELSE news.items[j]]]
    /\ UNCHANGED <<now, ticks, cache, setInfo, lastGet, apiKey, topics, videos,
                   rows, sents, run, call, queue, yielded>>

\* process_article_with_retry runs up to its return or its sleep
ArticleAttempt(j, answer, relevance) ==
    /\ news.mode = "background"
    /\ j \in 1..Len(news.items)
    /\ news.items[j].pc = "ready"
    /\ news' = [news EXCEPT
                  !.items[j] = Attempt(news.items[j], answer, relevance, news.time)]
    /\ UNCHANGED <<now, ticks, cache, setInfo, lastGet, apiKey, topics, videos,
                   rows, sents, run, call, queue, yielded>>

\* process_article_with_retry: asyncio.sleep(wait_time) is over
ArticleWakes(j) ==
    /\ news.mode = "background"
    /\ j \in 1..Len(news.items)
    /\ news.items[j].pc = "sleeping"
    /\ news.time >= news.items[j].wake
    /\ news' = [news EXCEPT !.items[j].pc = "ready"]
    /\ UNCHANGED <<now, ticks, cache, setInfo, lastGet, apiKey, topics, videos,
                   rows, sents, run, call, queue, yielded>>

\* the session after create_article was called for the first j articles, the
\* database refusing those of failed
SessionAfter(j, failed) ==
    IF \E k \in 1..j : k \in failed THEN "inactive" ELSE "active"

\* the articles saved after the last batch: create_article in its own try,
\* whose handler prints the error
SavedArticles(items, failed) ==
    [j \in 1..Len(items) |->
        LET made == create_article(SessionAfter(j - 1, failed), j \notin failed)
        IN  [items[j] EXCEPT !.saved = made.saved, !.refused = made.refused]]

\* analyze_topic: asyncio.gather returns; asyncio.sleep(2) if a batch is
\* left, else the loop ends and every article is saved
GatherReturns(failed) ==
    /\ news.mode = "background"
    /\ news.pc = "gather"
    /\ \A j \in BatchOf(news.i, Len(news.items)) : news.items[j].pc = "returned"
    /\ IF news.i + BatchSize < Len(news.items)
       THEN news' = [news EXCEPT !.pc = "sleep",
                                 !.wake = news.time + BatchDelay,
                                 !.sleeps = Append(@, [after |-> news.i + BatchSize,
                                                       d |-> BatchDelay])]
       ELSE news' = [news EXCEPT !.pc = "done",
                                 !.items = SavedArticles(@, failed),
                                 !.session = SessionAfter(Len(news.items), failed)]
    /\ UNCHANGED <<now, ticks, cache, setInfo, lastGet, apiKey, topics, videos,
                   rows, sents, run, call, queue, yielded>>

\* analyze_topic: asyncio.sleep(2) is over, the loop goes to the next batch
BatchWakes ==
    /\ news.mode = "background"
    /\ news.pc = "sleep"
    /\ news.time >= news.wake
    /\ news' = [news EXCEPT !.pc = "loop", !.i = @ + BatchSize]
    /\ UNCHANGED <<now, ticks, cache, setInfo, lastGet, apiKey, topics, videos,
                   rows, sents, run, call, queue, yielded>>

\* the wake-up times of the coroutines now in asyncio.sleep
Wakes ==
    (IF news.pc = "sleep" THEN {news.wake} ELSE {}) \cup
    {news.items[j].wake : j \in {k \in 1..Len(news.items) : news.items[k].pc = "sleeping"}}

\* the event loop has no task left to run and waits for the next wake-up
\* time
Elapse ==
    /\ \A j \in 1..Len(news.items) : news.items[j].pc # "ready"
    /\ \E w \in Wakes : w > news.time
    /\ news' = [news EXCEPT
                  !.time = CHOOSE w \in Wakes :
                              /\ w > news.time
                              /\ \A x \in Wakes : x > news.time => w <= x]
    /\ UNCHANGED <<now, ticks, cache, setInfo, lastGet, apiKey, topics, videos,
                   rows, sents, run, call, queue, yielded>>

\* the statistics after the articles: crud.get_topic and the queries that
\* follow use the session of the run; the topic is committed as completed,
\* or the handler of the run rolls back and stores failed
Statistics ==
    /\ news.pc = "done"
    /\ news' = [news EXCEPT !.pc = IF news.session = "active" THEN "completed" ELSE "failed",
                            !.session = "active"]
    /\ UNCHANGED <<now, ticks, cache, setInfo, lastGet, apiKey, topics, videos,
                   rows, sents, run, call, queue, yielded>>

\* the article processing of one run: N the numbers of articles found, A
\* Gemini's answers, R the relevance scores, F the sets of articles whose
\* create_article fails
Articles(N, A, R, F) ==
    \/ \E mode \in ArticleModes, n \in N : ArticlesStart(mode, n)
    \/ \E answer \in A, relevance \in R, saves \in BOOLEAN :
           StreamArticle(answer, relevance, saves)
    \/ StreamWakes
    \/ GatherBatch
    \/ \E j \in 1..MaxArticles, answer \in A, relevance \in R :
           ArticleAttempt(j, answer, relevance)
    \/ \E j \in 1..MaxArticles : ArticleWakes(j)
    \/ \E failed \in F : GatherReturns(failed)
    \/ BatchWakes
    \/ Elapse
    \/ Statistics

\* up to MaxArticles articles; Gemini answers, refuses for the quota, or
\* genai.configure raises with 429
NextBatches == Articles(0..MaxArticles, {"gist", "quota", "configure429"}, {80}, {{}})

SpecBatches == Init /\ [][NextBatches]_vars

\* ------------------------------------------------------------ properties
Terminal == {"completed", "failed"}

C3_FailedHasMessage ==
    \A t \in TopicIds :
        topics[t].analysis_status = "failed" => topics[t].error_message \notin {NullMsg, ""}

\* the summary cached under the normalized name of topic t is not expired
HoldsUnexpired(t) ==
    LET key == <<"topic_search:">> \o strip(lower(topics[t].topic_name))
    IN  key \in DOMAIN cache /\ now <= cache[key].expiry_time

\* C4: when the run reads the cache and an unexpired summary is held under
\* the normalized topic name, the run returns at once with the topic
\* completed, its four summary fields equal to the cached ones, and no
\* collaborator invoked.
C4_CacheHit ==
    [][\A t \in TopicIds :
          (run[t].pc = "check_cache" /\ run'[t].pc # "check_cache" /\ HoldsUnexpired(t)) =>
              LET cached == cache[<<"topic_search:">> \o strip(lower(topics[t].topic_name))].value
              IN  /\ run'[t].pc = "done"
                  /\ run'[t].calls = {}
                  /\ topics'[t].analysis_status = "completed"
                  /\ topics'[t].total_videos = cached.total_videos
                  /\ topics'[t].total_articles = cached.total_articles
                  /\ topics'[t].overall_impact_score = cached.overall_impact_score
                  /\ topics'[t].overall_sentiment = cached.overall_sentiment]_vars

\* the second topic, named "a " after "A", was served from the cache
C4_Witness ==
    /\ lastGet.hit
    /\ lastGet.key = <<"topic_search:", "a">>
    /\ run[2].pc = "done"
    /\ topics[2].topic_name = <<"a", " ">>
    /\ topics[2].analysis_status = "completed"
    /\ topics[2].total_videos = 1
    /\ topics[2].overall_sentiment = "POSITIVE"
    /\ topics[2].overall_impact_score = <<6, 1>>
    /\ get_videos_by_topic(videos, rows, 2) = <<>>

\* C5: a get of a key that was set (and not set again, deleted or cleared
\* since) returns the value set when it is made at or before the set time
\* plus the ttl; made strictly later it returns nothing and the entry is gone.
C5_Expiry ==
    (lastGet.key # <<>> /\ lastGet.key \in DOMAIN setInfo) =>
        LET set == setInfo[lastGet.key]
        IN  IF lastGet.at > set.at + set.ttl
            THEN ~ lastGet.hit /\ lastGet.key \notin DOMAIN cache
            ELSE lastGet.hit /\ lastGet.value = set.value

\* a key set with the shorter ttl was read after that ttl had passed
C5_Witness ==
    /\ lastGet.key = ListKey
    /\ ListKey \in DOMAIN setInfo
    /\ setInfo[ListKey].ttl = ListTTL
    /\ lastGet.at = setInfo[ListKey].at + TopicTTL
    /\ ~ lastGet.hit

\* the workers of the run of topic t whose outcome is o
WithOutcome(r, o) == {i \in 1..Len(r.wk) : r.wk[i].outcome = o}

\* the run of topic t returns in this step, after its fan-out
Returns(t) == run[t].wk # <<>> /\ run[t].pc # "done" /\ run'[t].pc = "done"

\* C6: when a run in which a task raised returns, every task has run to its
\* end, the collection loop holds for each task the result of its own
\* outcome, and the topic is completed.
C6_Isolation ==
    [][\A t \in TopicIds :
          (Returns(t) /\ WithOutcome(run[t], "raised") # {}) =>
              /\ topics'[t].analysis_status = "completed"
              /\ WithOutcome(run[t], "none") = {}
              /\ Len(run[t].results) = Len(run[t].wk)
              /\ \A i \in 1..Len(run[t].wk) :
                    \E j \in 1..Len(run[t].results) :
                        run[t].results[j] =
                            [idx |-> i, success |-> run[t].wk[i].outcome = "success"]]_vars

\* after the fan-out: the first task raised, the second one succeeded and
\* stored its scores, both results are held
C6_Witness ==
    /\ run[1].pc = "articles"
    /\ topics[1].analysis_status = "processing"
    /\ Len(run[1].wk) = 2
    /\ run[1].wk[1].outcome = "raised"
    /\ run[1].wk[2].outcome = "success"
    /\ videos[run[1].vids[2]].impact_score = 6
    /\ [idx |-> 1, success |-> FALSE] \in {run[1].results[j] : j \in 1..Len(run[1].results)}
    /\ [idx |-> 2, success |-> TRUE] \in {run[1].results[j] : j \in 1..Len(run[1].results)}

\* C7: at completion after the fan-out total_videos is the number of
\* workers that finished successfully.
C7_SuccessCount ==
    [][\A t \in TopicIds :
          (Returns(t) /\ topics'[t].analysis_status = "completed") =>
              topics'[t].total_videos = Cardinality(WithOutcome(run[t], "success"))]_vars

\* the impact scores of the items that the run of topic t dispatched
ItemScores(t) ==
    LET scored == SelectSeq(run[t].vids, LAMBDA v : videos[v].impact_score # NullScore)
    IN  [i \in 1..Len(scored) |-> videos[scored[i]].impact_score]

\* C8: at completion after the fan-out overall_impact_score is the mean of
\* the non-null impact scores of the items dispatched by the run (and null
\* when there is none).
C8_MeanOfItems ==
    [][\A t \in TopicIds :
          (Returns(t) /\ topics'[t].analysis_status = "completed") =>
              LET avg == topics'[t].overall_impact_score
              IN  /\ avg[2] = 0 <=> ItemScores(t) = <<>>
                  /\ avg[1] * Len(ItemScores(t)) = SumSeq(ItemScores(t)) * avg[2]]_vars

\* C9: a completed topic has an overall_impact_score whenever one of the
\* items that its run analysed or reused has an impact score.
C9_ImpactPresent ==
    \A t \in TopicIds :
        (run[t].pc = "done" /\ topics[t].analysis_status = "completed"
            /\ \E i \in 1..Len(run[t].vids) : videos[run[t].vids[i]].impact_score # NullScore)
        => topics[t].overall_impact_score # NullAvg

\* x is the label of s with the most occurrences, the earliest met among
\* those that have as many; no label when s is empty
Occurrences(s, x) == Cardinality({i \in 1..Len(s) : s[i] = x})
FirstAt(s, x) == CHOOSE i \in 1..Len(s) : s[i] = x /\ \A j \in 1..(i - 1) : s[j] # x
IsFirstMode(x, s) ==
    IF s = <<>> THEN x = NullLabel
    ELSE /\ \E i \in 1..Len(s) : s[i] = x
         /\ \A j \in 1..Len(s) :
               /\ Occurrences(s, s[j]) <= Occurrences(s, x)
               /\ Occurrences(s, s[j]) = Occurrences(s, x) => FirstAt(s, x) <= FirstAt(s, s[j])

Known(x) == x \notin {NullLabel, "UNKNOWN"}

\* the fused sentiments of the items of the run of topic t, in item order
FusedLabels(t) ==
    LET kept == SelectSeq(run[t].vids, LAMBDA v : Known(videos[v].overall_sentiment))
    IN  [i \in 1..Len(kept) |-> videos[kept[i]].overall_sentiment]

\* the labels of the first sentiment record of the videos stored under
\* topic t, in row order
FirstRecordLabels(t) ==
    LET kept == SelectSeq(rows, LAMBDA v : /\ videos[v].topic_id = t
                                           /\ sents[v] # <<>>
                                           /\ Known(sents[v][1].sentiment))
    IN  [i \in 1..Len(kept) |-> sents[kept[i]][1].sentiment]

\* C10 (as claimed): at completion after the fan-out overall_sentiment is
\* the first most frequent of the known fused sentiments of the items.
C10_ModeOfFused ==
    [][\A t \in TopicIds :
          (Returns(t) /\ topics'[t].analysis_status = "completed") =>
              IsFirstMode(topics'[t].overall_sentiment, FusedLabels(t))]_vars

\* C10: at completion after the fan-out overall_sentiment is the most
\* frequent label among the first stored sentiment records of the videos
\* stored under the topic, UNKNOWN removed, the label met first in row
\* order winning a tie; it is null when there is no such label.
C10_ModeOfFirstRecords ==
    [][\A t \in TopicIds :
          (Returns(t) /\ topics'[t].analysis_status = "completed") =>
              IsFirstMode(topics'[t].overall_sentiment, FirstRecordLabels(t))]_vars

\* three stored videos whose first records read UNKNOWN, NEGATIVE and
\* POSITIVE: the tie went to NEGATIVE, while the second video's fused
\* sentiment is the other model's
C10_Witness ==
    /\ run[1].pc = "done"
    /\ topics[1].analysis_status = "completed"
    /\ rows = <<1, 2, 3>>
    /\ \A v \in 1..3 : sents[v] # <<>>
    /\ sents[1][1].sentiment = "UNKNOWN"
    /\ sents[2][1].sentiment = "NEGATIVE"
    /\ sents[3][1].sentiment = "POSITIVE"
    /\ videos[3].overall_sentiment = "NEGATIVE"
    /\ topics[1].overall_sentiment = "NEGATIVE"

\* C11: a run whose initial search returns no item, or that finds the
\* credentials missing, is aborted with the topic failed.
C11_SetupFails ==
    [][\A t \in TopicIds :
          /\ (run[t].pc = "search" /\ run'[t].pc = "done") =>
                topics'[t].analysis_status = "failed"
          /\ (run[t].pc = "check_cache" /\ run'[t].pc = "done" /\ ~ lastGet'.hit) =>
                topics'[t].analysis_status = "failed"]_vars

LabelOf(x) ==
    IF ~ x.present \/ x.sentiment = NullLabel \/ x.sentiment = "" THEN NullLabel
    ELSE Upper(x.sentiment)

Fused == call.fn = "determine_overall_sentiment" /\ call.returned

\* C13: determine_overall_sentiment returns (no label, false) when neither
\* record has a label, (that label, false) when exactly one has a label and
\* (that label, true) when both have the same label.
C13_FuseTable ==
    Fused =>
        LET a == LabelOf(call.args[1])
            b == LabelOf(call.args[2])
        IN  /\ (a = NullLabel /\ b = NullLabel) => call.ret = <<NullLabel, FALSE>>
            /\ (a # NullLabel /\ b = NullLabel) => call.ret = <<a, FALSE>>
            /\ (a = NullLabel /\ b # NullLabel) => call.ret = <<b, FALSE>>
            /\ (a # NullLabel /\ a = b) => call.ret = <<a, TRUE>>

\* only the second model gave a label, in lower case
C13_Witness ==
    /\ Fused
    /\ call.args[1] = [present |-> TRUE, sentiment |-> NullLabel, confidence |-> 0]
    /\ call.args[2] = [present |-> TRUE, sentiment |-> "positive", confidence |-> 9]
    /\ call.ret = <<"POSITIVE", FALSE>>

\* C14: for two records with different labels determine_overall_sentiment
\* returns the label of the record of strictly higher confidence, the first
\* record's label when the confidences are equal, and no agreement.
C14_FuseConflict ==
    Fused =>
        LET a == LabelOf(call.args[1])
            b == LabelOf(call.args[2])
            ca == call.args[1].confidence
            cb == call.args[2].confidence
        IN  (a # NullLabel /\ b # NullLabel /\ a # b) =>
                /\ call.ret[2] = FALSE
                /\ ca > cb => call.ret[1] = a
                /\ cb > ca => call.ret[1] = b
                /\ ca = cb => call.ret[1] = a

\* different labels of equal confidence: the first record's label is kept
C14_Witness ==
    /\ Fused
    /\ call.args[1] = [present |-> TRUE, sentiment |-> "NEGATIVE", confidence |-> 5]
    /\ call.args[2] = [present |-> TRUE, sentiment |-> "POSITIVE", confidence |-> 5]
    /\ call.ret = <<"NEGATIVE", FALSE>>

Scored == call.fn = "calculate_impact_score" /\ call.returned

\* C15: calculate_impact_score returns an impact score and reach,
\* engagement, sentiment, quality and influence scores between 0 and 10
\* (scores in tenths).
C15_ImpactBounds ==
    Scored =>
        /\ call.ret.impact_score \in 0..100
        /\ call.ret.reach_score \in 0..100
        /\ call.ret.engagement_score \in 0..100
        /\ call.ret.sentiment_score \in 0..100
        /\ call.ret.quality_score \in 0..100
        /\ call.ret.influence_score \in 0..100

\* a recent video of a large channel, liked and commented by its few
\* viewers, both models positive: the product of the base score 7.46 and the
\* boost 1.5 is capped at 10
C15_Witness ==
    /\ Scored
    /\ call.args[1].view_count = 9
    /\ call.args[1].published_at.kind = "time"
    /\ call.ret.recency_boost = 15
    /\ call.ret.reach_score = 14
    /\ call.ret.engagement_score = 100
    /\ call.ret.sentiment_score = 80
    /\ call.ret.quality_score = 100
    /\ call.ret.influence_score = 100
    /\ call.ret.impact_score = 100

\* the boost of an item has been computed from its publishedAt
Boosted == call.fn = "item_recency_boost" /\ call.returned

\* C16: the recency boost of an item is 1.5 when it was published at most 7
\* days ago, 1.3 when more than 7 and at most 30 days ago, 1.1 when more
\* than 30 and at most 90 days ago, 1.0 when older, and 1.0 when the
\* publish time is unknown (boost in tenths; the age is counted in whole
\* elapsed days).
C16_RecencyTiers ==
    Boosted =>
        LET p == call.args[1]
            days == p.age \div 24
        IN  IF p.kind # "time" THEN call.ret = 10
            ELSE IF days <= 7 THEN call.ret = 15
            ELSE IF days <= 30 THEN call.ret = 13
            ELSE IF days <= 90 THEN call.ret = 11
            ELSE call.ret = 10

\* C17 (as claimed): an item published 3 days ago gets 1.5, one published
\* 45 days ago 1.3, one published 120 days ago 1.0.
C17_RecencyExamples ==
    (Boosted /\ call.args[1].kind = "time") =>
        /\ call.args[1].age = 3 * 24 => call.ret = 15
        /\ call.args[1].age = 45 * 24 => call.ret = 13
        /\ call.args[1].age = 120 * 24 => call.ret = 10

\* C17: an item published 3 days ago gets 1.5, one published 45 days ago
\* 1.1, one published 120 days ago 1.0.
C17_RecencyExamplesTiered ==
    (Boosted /\ call.args[1].kind = "time") =>
        /\ call.args[1].age = 3 * 24 => call.ret = 15
        /\ call.args[1].age = 45 * 24 => call.ret = 11
        /\ call.args[1].age = 120 * 24 => call.ret = 10

\* the item published 45 days ago has got its boost
C17_Witness ==
    /\ Boosted
    /\ call.args[1] = [kind |-> "time", age |-> 45 * 24]
    /\ call.ret = 11

\* the batch of the j-th article: batch 0 is all_articles[0:5]
ArticleBatch(j) == (j - 1) \div BatchSize

\* the articles are handed over batch by batch: those of one batch together
\* and at the same time, those of the next batch once every article of
\* this one has returned and BatchDelay has passed since; the loop sleeps
\* between two batches only, for BatchDelay; once the processing is over
\* every article has been handed over once and has returned
ArticlesBatched ==
    LET n == Len(news.items)
        a(j) == news.items[j]
    IN /\ \A j, k \in 1..n :
            ArticleBatch(j) = ArticleBatch(k) =>
                /\ (a(j).pc = "new") <=> (a(k).pc = "new")
                /\ a(j).started = a(k).started
       /\ \A j, k \in 1..n :
            (ArticleBatch(k) = ArticleBatch(j) + 1 /\ a(k).pc # "new") =>
                /\ a(j).pc = "returned"
                /\ a(k).started >= a(j).finished + BatchDelay
       /\ \A x \in 1..Len(news.sleeps) :
            /\ news.sleeps[x].d = BatchDelay
            /\ news.sleeps[x].after % BatchSize = 0
            /\ news.sleeps[x].after < n
       /\ \A j \in 1..n : a(j).handed <= 1
       /\ news.pc = "done" => \A j \in 1..n : a(j).handed = 1 /\ a(j).pc = "returned"

\* C18: in either analysis the article processor hands the articles over
\* in consecutive batches of BatchSize, the articles of a batch together,
\* the next batch only after every article of this one has returned and
\* the delay between batches has passed, with no delay inside a batch or
\* after the last one, and every article exactly once.
C18_Batches == news.mode \in ArticleModes => ArticlesBatched

\* the batches of analyze_topic (the background analysis) alone are as C18
\* states
C18_BackgroundBatches == news.mode = "background" => ArticlesBatched

\* two batches went through the background analysis
C18_BackgroundWitness ==
    /\ news.mode = "background"
    /\ news.pc = "done"
    /\ Len(news.items) > BatchSize
    /\ Len(news.sleeps) = 1

\* s is the start of <<10, 20>>
IsBackoff(s) == Len(s) <= 2 /\ s = SubSeq(<<10, 20>>, 1, Len(s))

\* C19: an article worker of the background analysis to which Gemini has
\* signalled an exceeded quota backs off, 10 seconds the first time and 20
\* the second, makes at most MaxRetries attempts, and once it has returned
\* after MaxRetries such signals the article carries the placeholder
\* summary and the relevance 50.
C19_QuotaBackoff ==
    news.mode = "background" =>
        \A j \in 1..Len(news.items) :
            LET a == news.items[j]
            IN /\ a.attempts <= MaxRetries
               /\ IsBackoff(a.backoffs)
               /\ a.signals >= 1 => Len(a.backoffs) >= 1
               /\ (a.signals = MaxRetries /\ a.pc = "returned") =>
                      /\ a.gist = "Summary unavailable (rate limit)"
                      /\ a.relevance = DefaultRelevance

\* the language codes of the model that name English; "en" is also what
\* get_video_details reports for an item without a language
IsEnglish(language) == language \in {"en", "EN-GB", "en-US", "en-IN"}

\* the detail is of a video of at most MaxMinutes minutes, English or
\* without a language
Passes(d) == d.duration_seconds <= MaxMinutes * 60 /\ IsEnglish(d.language)

\* the videos of the run r that have an item worker
Dispatched(r) == {r.vids[i] : i \in 1..Len(r.wk)}

Severities == {"info", "success", "warning", "error"}

\* C21: every event that analyze_topic_streaming yields, the relayed log
\* entries of the item workers included, has a message and a severity among
\* info, success, warning, error.
C21_EventsTyped ==
    \A k \in 1..Len(yielded) :
        /\ yielded[k].message # NullMsg
        /\ yielded[k].type \in Severities


\* asyncio.wait_for gave up after 600 seconds, but the executor thread goes
\* on with transcription_service.transcribe_video, which ends with
\* log("[TRANSCRIPTION_END]"): log_callback puts the message on the queue
\* whatever the run does by then
LateLog(t, i) ==
    /\ i \in 1..Len(run[t].wk)
    /\ run[t].wk[i].thread
    /\ run' = [run EXCEPT ![t].wk[i].thread = FALSE]
    /\ queue' = Append(queue, Logged(t))
    /\ lastGet' = NoGet
    /\ yielded' = <<>>
    /\ UNCHANGED <<now, ticks, cache, setInfo, apiKey, call, news, topics, videos, rows, sents>>

\* ------------------------------------------ calculate_quality_score, alone
QualityReturns ==
    /\ call.fn = "calculate_quality_score"
    /\ Returned(calculate_quality_score(call.args[1], call.args[2]))

InitQuality ==
    /\ InitStore
    /\ call \in Calls("calculate_quality_score", FuseRecords \X FuseRecords)

SpecQuality == InitQuality /\ [][QualityReturns]_vars

\* the agreement case in which determine_overall_sentiment puts two records:
\* 7 agreement, 3 two differing labels, 4 one label, 0 no label
FuseBase(hf_sentiment, gemini_sentiment) ==
    LET fused == determine_overall_sentiment(hf_sentiment, gemini_sentiment)
        a == LabelOf(hf_sentiment)
        b == LabelOf(gemini_sentiment)
    IN  IF fused[2] THEN 7
        ELSE IF a # NullLabel /\ b # NullLabel THEN 3
        ELSE IF a # NullLabel \/ b # NullLabel THEN 4
        ELSE 0

\* C22: the quality score (in hundredths) is min(10, base + 3 x mean
\* confidence), the base being that of the agreement case in which
\* determine_overall_sentiment puts the same two records, for every casing of
\* the labels.
C22_QualityAgrees ==
    (call.fn = "calculate_quality_score" /\ call.returned) =>
        LET hf_sentiment == call.args[1]
            gemini_sentiment == call.args[2]
            conf == AvgConfidence(hf_sentiment, gemini_sentiment)
        IN  call.ret = Min(1000, FuseBase(hf_sentiment, gemini_sentiment) * 100
                                    + (conf[1] * 30) \div conf[2])


\* ------------------------------------------- map_sentiment_to_score, alone
SentimentReturns ==
    /\ call.fn = "map_sentiment_to_score"
    /\ Returned(map_sentiment_to_score(call.args[1], call.args[2]))

InitSentiment ==
    /\ InitStore
    /\ call \in Calls("map_sentiment_to_score", FuseRecords \X FuseRecords)

SpecSentiment == InitSentiment /\ [][SentimentReturns]_vars

\* the base value of a fused label: POSITIVE 8, MIXED or NEUTRAL 5, NEGATIVE 2
FusedValue(label) ==
    IF label = "POSITIVE" THEN 8 ELSE IF label = "NEGATIVE" THEN 2 ELSE 5

\* C23: the sentiment score (in hundredths) is the base value of the label
\* that determine_overall_sentiment gives for the same two records, times the
\* mean confidence of the models, and 0 when no model gave a label.
C23_SentimentOfFused ==
    (call.fn = "map_sentiment_to_score" /\ call.returned) =>
        LET hf_sentiment == call.args[1]
            gemini_sentiment == call.args[2]
            fused == determine_overall_sentiment(hf_sentiment, gemini_sentiment)[1]
            conf == AvgConfidence(hf_sentiment, gemini_sentiment)
        IN  call.ret = IF fused = NullLabel THEN 0
                       ELSE Min(1000, (FusedValue(fused) * conf[1] * 10) \div conf[2])


\* the sentiment models of an item worker
ModelNames == {"vader", "gemini"}

\* the item has a sentiment row of the model
HasRow(v, model_name) == \E k \in 1..Len(sents[v]) : sents[v][k].model_name = model_name

\* C24: once the sentiment steps of an item with content are over (the
\* worker is at the steps that lead to scoring), the item has a sentiment
\* row of each model; the row of a model that gave no label is UNKNOWN with
\* confidence 0.
C24_UnknownRecorded ==
    \A t \in TopicIds : \A i \in 1..Len(run[t].wk) :
        (run[t].wk[i].pc = "comments" /\ run[t].wk[i].hf.present) =>
            \A m \in ModelNames : HasRow(run[t].vids[i], m)


\* one run, the transcription of its videos answering in every way
\* and the store refusing a sentiment row
NextTranscribe ==
    \/ \E m \in Modes : CreateTopic(1, <<"A">>, m)
    \/ Orchestrator({1}, SearchResults, DetailsSome, {MaxNews})
    \/ Workers({1}, HfSome, GeminiResults, Transcriptions, ImpactSome, TRUE)
    \/ \E i \in 1..MaxResults, hf \in HfSome, st \in Transcriptions :
           /\ InTurn(1, i, TRUE)
           /\ StreamingSentimentFails(1, i, hf, st)

SpecTranscribe == Init /\ [][NextTranscribe]_vars

\* the worker of the i-th video of topic t is past its transcription step
Transcribed(t, i) ==
    /\ i \in 1..Len(run[t].wk)
    /\ run[t].wk[i].report.report # "none"
    /\ run[t].wk[i].pc \in {"gemini", "comments", "finished"}

\* C25: after the transcription step of an item worker the stored
\* transcription_status is success exactly when transcribe_video returned
\* success with a text within the 600 seconds, timeout when it reported a
\* timeout or took longer than the 600 seconds, and failed otherwise (also
\* when it raised); the worker goes on to its next step.
C25_Classified ==
    \A t \in TopicIds : \A i \in 1..MaxResults :
        Transcribed(t, i) =>
            LET o == run[t].wk[i].report
                status == videos[run[t].vids[i]].transcription_status
            IN  /\ status \in {"success", "failed", "timeout"}
                /\ status = "success" <=> (o.report = "text" /\ ~ o.late)
                /\ (o.report = "timeout" \/ o.late) => status = "timeout"
                /\ (o.report \in {"empty", "failed", "raised"} /\ ~ o.late) => status = "failed"


\* C26: an item whose transcription_status is success has at least one
\* sentiment row (the store has no marker of a skipped sentiment analysis).
C26_SentimentOrMarker ==
    \A v \in VideoIds :
        videos[v].transcription_status = "success" => Len(sents[v]) >= 1


\* the rows of the item that the model made
RowsOf(v, model_name) == {k \in 1..Len(sents[v]) : sents[v][k].model_name = model_name}

\* C27: the store holds at most one sentiment row for an item and a model,
\* whatever runs have processed the item.
C27_OneRowPerModel ==
    \A v \in VideoIds : \A m \in ModelNames : Cardinality(RowsOf(v, m)) <= 1


\* the sequence is an initial part of the other
IsPrefix(a, b) == Len(a) <= Len(b) /\ \A k \in 1..Len(a) : a[k] = b[k]

\* the worker of the i-th item of topic t fails in this step
FailsNow(t, i) ==
    /\ i \in 1..Len(run[t].wk)
    /\ run[t].wk[i].outcome = "none"
    /\ run'[t].wk[i].outcome = "failure"

\* the sentiment rows stored in this step for the video
NewRows(v) == {sents'[v][k] : k \in (Len(sents[v]) + 1)..Len(sents'[v])}

NextArticles ==
    Articles({2, MaxArticles}, {"gist", "configure429", "configure"}, {80}, {{}, {1}})

SpecArticles == Init /\ [][NextArticles]_vars

\* C29: when the articles of a run are done the topic ends as completed, and
\* every article but those whose own summary raised or whose own row the
\* database refused is saved.
C29_ArticleBoundary ==
    news.pc \in {"completed", "failed"} =>
        /\ news.pc = "completed"
        /\ \A j \in 1..Len(news.items) :
               (news.items[j].gist # NullGist /\ ~ news.items[j].refused) =>
                   news.items[j].saved


\* the cache entry of the key is written in this step
Written(k) == k \in DOMAIN cache' /\ (k \notin DOMAIN cache \/ cache'[k] # cache[k])

\* the summary that the cache holds for the key is that of the topic row
SameCounters(k, row) ==
    /\ cache'[k].value.total_videos = row.total_videos
    /\ cache'[k].value.total_articles = row.total_articles
    /\ cache'[k].value.overall_impact_score = row.overall_impact_score
    /\ cache'[k].value.overall_sentiment = row.overall_sentiment

\* C30: a cache entry is written only in the step that commits a topic of
\* that name as completed at the end of a full analysis (one that found valid
\* videos and did not take its result from the cache), with the counters of
\* the committed row; no other step writes an entry, in particular none of a
\* run that fails or that ends for want of (valid) videos.
C30_CacheAfterCommit ==
    [][\A k \in DOMAIN cache' :
          Written(k) =>
              \E t \in TopicIds :
                  /\ topic_search_key(topics'[t].topic_name) = k
                  /\ topics[t].analysis_status = "processing"
                  /\ topics'[t].analysis_status = "completed"
                  /\ run[t].vids # <<>>
                  /\ ~ lastGet'.hit
                  /\ SameCounters(k, topics'[t])]_vars

\* a full background analysis of one video is completed and cached (the
\* search count of the row stays 0, the cached total is 1), and a second
\* topic was completed from that entry without searching
C30_Witness ==
    /\ topics[1].analysis_status = "completed"
    /\ topics[1].total_videos = 1
    /\ topics[1].videos_found = 0
    /\ run[1].mode = "background"
    /\ topic_search_key(topics[1].topic_name) \in DOMAIN cache
    /\ cache[topic_search_key(topics[1].topic_name)].value.total_videos = 1
    /\ topics[2].analysis_status = "completed"
    /\ topics[2].total_videos = 1
    /\ run[2].vids = <<>>


\* the worker of the i-th item of topic t is called in this step
CalledNow(t, i) ==
    /\ i \in 1..Len(run[t].wk)
    /\ i \in 1..Len(run'[t].wk)
    /\ ~ run[t].wk[i].entered
    /\ run'[t].wk[i].entered

\* C31: a worker that is called for an item whose stored record has an
\* impact score returns success in that step, calls no collaborator and
\* leaves the stored videos, topic links and sentiment rows as they were.
C31_NoReprocessing ==
    [][\A t \in TopicIds : \A i \in 1..MaxResults :
          (/\ CalledNow(t, i)
           /\ videos[run[t].vids[i]].topic_id # 0
           /\ videos[run[t].vids[i]].impact_score # NullScore) =>
              /\ run'[t].wk[i].outcome = "success"
              /\ run'[t].calls = run[t].calls
              /\ videos' = videos
              /\ rows' = rows
              /\ sents' = sents]_vars

\* the second topic found the video that the first had analysed without a
\* transcript: its worker returned success and called no collaborator
C31_Witness ==
    /\ run[2].pc = "fanout"
    /\ Len(run[2].wk) = 1
    /\ run[2].wk[1].entered
    /\ run[2].wk[1].outcome = "success"
    /\ "transcribe_video" \notin run[2].calls
    /\ videos[run[2].vids[1]].topic_id = 1
    /\ videos[run[2].vids[1]].transcription_status = "failed"
    /\ videos[run[2].vids[1]].impact_score # NullScore


\* C32: a step of the run of topic t leaves the other topics' rows as they
\* were and moves no stored video of another topic.
C32_OtherTopicsUnchanged ==
    [][\A t \in TopicIds :
          run'[t] # run[t] =>
              /\ \A u \in TopicIds \ {t} : topics'[u] = topics[u]
              /\ \A v \in VideoIds :
                     videos[v].topic_id \notin {0, t} =>
                         videos'[v].topic_id = videos[v].topic_id]_vars


\* two topics whose runs overlap, each search returning at most one video
NextOverlap ==
    \/ \E t \in TopicIds, n \in TopicNames, m \in Modes : CreateTopicAnyTime(t, n, m)
    \/ Orchestrator(TopicIds, DistinctSeqs(0) \cup DistinctSeqs(1), DetailsSome, {MaxNews})
    \/ Workers(TopicIds, HfSome, GeminiResults, TranscriptionSome, ImpactSome, TRUE)

SpecOverlap == Init /\ [][NextOverlap]_vars

\* the number of log entries that the step relays
RelayedNow == Cardinality({k \in 1..Len(yielded') : yielded'[k].status = NullLabel})

\* C33: the log entries that a step relays are the first entries of the
\* queue and were put by workers of the run whose stream yields them, and
\* the entries that a step does not relay stay in the queue (none is dropped
\* when another run starts).
C33_OwnStream ==
    [][/\ RelayedNow <= Len(queue)
       /\ \A k \in 1..RelayedNow : queue[k].topic = yielded'[k].stream
       /\ Len(queue') >= Len(queue) - RelayedNow
       /\ \A k \in (RelayedNow + 1)..Len(queue) : queue'[k - RelayedNow] = queue[k]]_vars


\* a transcription that returns a text in time, and one that is still
\* running when the 600 seconds are over
TranscriptionLate == {Transcription("text", FALSE), Transcription("failed", TRUE)}

\* one run, a transcription thread possibly outliving its wait
NextLate ==
    \/ \E m \in Modes : CreateTopic(1, <<"A">>, m)
    \/ Orchestrator({1}, SearchResults, DetailsSome, {MaxNews})
    \/ Workers({1}, HfSome, GeminiResults, TranscriptionLate, ImpactSome, TRUE)
    \/ \E i \in 1..MaxResults : LateLog(1, i)

SpecLate == Init /\ [][NextLate]_vars

\* C34: a log message that a worker of a run has emitted and that the stream
\* has not yielded yet belongs to a run that is still processing its items:
\* the run yields it before its "Processed videos" summary event.
C34_LogsBeforeSummary ==
    \A k \in 1..Len(queue) : run[queue[k].topic].pc = "fanout"


\* ------------------------------------------------- the stream of main.py
\* main.create_topic_streaming.event_stream: the "async for" over
\* pipeline.analyze_topic_streaming is over (the generator has returned,
\* also after its exception handler), the last event follows
Complete == Event("complete", "success", "Analysis complete!")

StreamEnds(t) ==
    /\ run[t].pc = "done"
    /\ run[t].mode = "streaming"
    /\ ~ run[t].ended
    /\ run' = [run EXCEPT ![t].ended = TRUE]
    /\ lastGet' = NoGet
    /\ yielded' = OnStream(t, <<Complete>>)
    /\ UNCHANGED <<now, ticks, cache, setInfo, apiKey, call, news, queue, topics, videos, rows, sents>>

\* one topic submitted, its event stream read to the end
NextStream ==
    \/ \E m \in Modes : CreateTopic(1, <<"A">>, m)
    \/ Orchestrator({1}, SearchResults, DetailsSome, 0..MaxNews)
    \/ Workers({1}, HfSome, GeminiResults, TranscriptionSome, ImpactSome, TRUE)
    \/ StreamEnds(1)

SpecStream == Init /\ [][NextStream]_vars

\* C35: the stream yields the "complete" event only for a topic whose
\* status is completed; the last event of the stream of a topic whose
\* status is failed is an error event.
C35_CompleteOnlyCompleted ==
    \A k \in 1..Len(yielded) :
        yielded[k].status = "complete" =>
            topics[yielded[k].stream].analysis_status = "completed"


\* the worker of the i-th video of topic t stores its scores in this step
ScoresNow(t, i) ==
    /\ WorkerAt(t, i, "comments")
    /\ run'[t].wk[i].pc = "finished"
    /\ videos'[run[t].vids[i]].impact_score # NullScore

\* C36: the overall_sentiment and models_agree that a worker stores for its
\* video are what determine_overall_sentiment returns for the two sentiment
\* records of this pass, whether both, one or none of them is available.
C36_StoredIsFused ==
    [][\A t \in TopicIds : \A i \in 1..MaxResults :
          ScoresNow(t, i) =>
              LET w == run[t].wk[i]
                  fused == determine_overall_sentiment(w.hf, w.gem)
                  video == videos'[run[t].vids[i]]
              IN  /\ video.overall_sentiment = fused[1]
                  /\ video.models_agree = fused[2]]_vars


\* C37: a worker that is through with a video that it transcribed (with or
\* without a transcript) has fetched the comments of the video, in the
\* background and in the streaming analysis.
C37_CommentsAlways ==
    \A t \in TopicIds : \A i \in 1..MaxResults :
        (Transcribed(t, i) /\ run[t].wk[i].pc = "finished") => run[t].wk[i].comments


\* the worker of the i-th video of topic t learns in this step that there
\* is no transcript
NoContentNow(t, i) ==
    /\ i \in 1..Len(run[t].wk) /\ i \in 1..Len(run'[t].wk)
    /\ run[t].wk[i].report.report = "none"
    /\ run'[t].wk[i].report.report # "none"
    /\ videos'[run[t].vids[i]].transcription_status # "success"

\* the worker of the i-th video of topic t, which has no transcript, ends in
\* this step
NoContentEnds(t, i) ==
    /\ i \in 1..Len(run[t].wk) /\ i \in 1..Len(run'[t].wk)
    /\ run[t].wk[i].pc # "finished"
    /\ run'[t].wk[i].pc = "finished"
    /\ run'[t].wk[i].report.report # "none"
    /\ videos'[run[t].vids[i]].transcription_status \in {"failed", "timeout"}

\* the calls on the content of a video
ContentCalls == {"analyze_sentiment", "analyze_sentiment_advanced", "extract_entities"}

====
